---- MODULE Spec2Model ----
(***************************************************************************)
(* omramin: synchronisation of OMRON connect measurements to Garmin        *)
(* Connect.  The module models                                             *)
(*   - OmronConnect2.get_measurements (src/omronconnect.py), the filter of *)
(*     the incremental-sync API ("Variant B"),                             *)
(*   - omron_sync_device_to_garmin, garmin_get_weighins,                   *)
(*     garmin_get_bp_measurements, sync_scale_measurements and             *)
(*     sync_bp_measurements (src/omramin.py), the reconciliation of one    *)
(*     device against the target store.                                    *)
(*                                                                         *)
(* Units.  Times are integers: measurementDate in milliseconds since the   *)
(* epoch, target-store timestamps in seconds, timezone offsets in minutes  *)
(* (raw Variant B offsets in seconds).  Weights are integers in grams,     *)
(* percentages, levels and metabolism are whole numbers; -1 is the         *)
(* "unknown" sentinel of the measurement model.  None is Python's None.    *)
(***************************************************************************)
EXTENDS Integers, Sequences, FiniteSets, TLC

\* ------------------------------------------------------------------ bounds
\* longest raw list the source service returns for one device
MaxFetched == 2
\* most records the target store holds before the first run
MaxExisting == 2
\* number of consecutive sync invocations of the same device
MaxRuns == 2
\* longest raw list handed to the Variant B filter on its own
MaxRaw == 2
\* longest device list handed to filter_devices on its own
MaxListed == 2
\* largest --days handed to calculate_date_range on its own
MaxDays == 2
\* most device entries in the configuration of a "sync" command
MaxDevices == 2
\* most messages logged by the "add" and "remove" commands run in a row
MaxOps == 3

\* ------------------------------------------------------- program constants
MsPerSecond == 1000
SecondsPerDay == 86400
SecondsPerMinute == 60
\* 0.453592 kg per pound, in millionths of a kilogram
LbToKgMillionths == 453592

None == "None"

VARIABLES
    \* ---- one sync invocation (omron_sync_device_to_garmin and callees)
    opts,          \* Options: [overwrite, write_to_garmin]
    ocDev,         \* OmronDevice: [category, user]
    window,        \* <<startLocal, endLocal>> in epoch seconds
    source,        \* raw records the source service answers with
    garmin,        \* target store: sequence of [pk, gmt] (gmt in seconds)
    nextPk,        \* next record handle the target store hands out
    pc,            \* position in the invocation
    measurements,  \* list returned by oc.get_measurements
    gcData,        \* lookup built by garmin_get_*: sequence of [pk, key]
    mi,            \* index of the measurement the loop is at
    gi,            \* position of the inner loop over gcData.items()
    run,           \* number of the running invocation
    calls,         \* calls issued to the source and the target store
    log,           \* decisions logged by the sync_* loops
    ended,         \* how each finished invocation ended, with its options
    \* ---- a pure function on its own (OmronConnect2.get_measurements, ...)
    query,         \* the arguments, e.g. [device, data, searchDateTo]
    result,        \* the value returned, or None before the call
    \* ---- one "sync" command (sync_device) over the configured devices
    oc,            \* class of the source client: OmronConnect1 or OmronConnect2
    devices,       \* config["omron"]["devices"]: list of device entries
    args,          \* command arguments: [devnames, category, days]
    clock,         \* local calendar: [today, offStart, offEnd]
    cloud,         \* per configured device, what the source service holds
    stores,        \* the target stores by category, between two devices
    selected,      \* the devices left by filter_devices
    di,            \* index in selected of the device being synced
    spc            \* position in sync_device

syncVars == <<opts, ocDev, window, source, garmin, nextPk, pc, measurements,
              gcData, mi, gi, run, calls, log, ended>>
filterVars == <<query, result>>
cmdVars == <<oc, devices, args, clock, cloud, stores, selected, di, spc>>
vars == <<opts, ocDev, window, source, garmin, nextPk, pc, measurements,
          gcData, mi, gi, run, calls, log, ended, query, result,
          oc, devices, args, clock, cloud, stores, selected, di, spc>>

\* ------------------------------------------------------------ small helpers
Range(s) == {s[k] : k \in 1..Len(s)}

SeqsUpTo(S, n) == UNION {[1..k -> S] : k \in 0..n}

Count(s, P(_)) == Cardinality({k \in 1..Len(s) : P(s[k])})

IsPrefix(s, t) == Len(s) <= Len(t) /\ \A k \in 1..Len(s) : s[k] = t[k]

\* ------------------------------------------------------- measurement model
\* BPMeasurement.__post_init__ turns the flags into bool
BPMeasurement(sys, dia, pulse, date, tz, irr, mov, cuff, notes) ==
    [type |-> "BPMeasurement",
     systolic |-> sys, diastolic |-> dia, pulse |-> pulse,
     measurementDate |-> date, timeZone |-> tz,
     irregularHB |-> irr, movementDetect |-> mov,
     cuffWrapDetect |-> cuff, notes |-> notes]

\* WeightMeasurement; get_measurements of Variant B passes no metabolicAge,
\* which then keeps its default of -1
WeightMeasurement(weight, date, tz, bmi, fat, met, muscle, visc, notes) ==
    [type |-> "WeightMeasurement",
     weight |-> weight,
     measurementDate |-> date, timeZone |-> tz,
     bmiValue |-> bmi, bodyFatPercentage |-> fat,
     restingMetabolism |-> met,
     skeletalMusclePercentage |-> muscle,
     visceralFatLevel |-> visc,
     metabolicAge |-> -1, notes |-> notes]

\* pytz.FixedOffset(int(m["timeZone"]) // 60): seconds to minutes
FixedOffset(seconds) == seconds \div SecondsPerMinute

\* ------------------------------------- OmronConnect2.get_measurements
\* variant of SkipUser without the slot test
SkipUser_Never(user, m) == FALSE

\* "if user >= 0 and userNumberInDevice != user: continue"
SkipUser(user, m) == user >= 0 /\ m.userNumberInDevice # user

\* variant of SkipDate that also drops a record dated at the upper bound
SkipDate_Inclusive(searchDateTo, m) ==
    searchDateTo > 0 /\ m.measurementDate >= searchDateTo

\* "if searchDateTo > 0 and measurementDate > searchDateTo: continue"
SkipDate(searchDateTo, m) ==
    searchDateTo > 0 /\ m.measurementDate > searchDateTo

\* variant of SkipManual that lets manual entries through
SkipManual_Never(m) == FALSE

\* "if int(m["isManualEntry"]): continue"
SkipManual(m) == m.isManualEntry # 0

\* variant of WeightOrLbs that takes the pounds whenever they are there
WeightOrLbs_PoundsFirst(m) ==
    IF m.weightInLbs > 0
    THEN (m.weightInLbs * LbToKgMillionths) \div 1000
    ELSE m.weight

\* weight of a Variant B record, in grams
WeightOrLbs(m) ==
    IF m.weight <= 0 /\ m.weightInLbs > 0
    THEN (m.weightInLbs * LbToKgMillionths) \div 1000
    ELSE m.weight

ToBPMeasurement(m) ==
    BPMeasurement(m.systolic, m.diastolic, m.pulse, m.measurementDate,
                  FixedOffset(m.timeZone), m.irregularHB # 0,
                  m.movementDetect # 0, m.cuffWrapDetect # 0, m.notes)

ToWeightMeasurement(m) ==
    WeightMeasurement(WeightOrLbs(m), m.measurementDate,
                      FixedOffset(m.timeZone), m.bmiValue,
                      m.bodyFatPercentage, m.restingMetabolism,
                      m.skeletalMusclePercentage, m.visceralFatLevel,
                      m.notes)

\* the loop of filter_measurements from position k on, r the list so far
RECURSIVE filter_measurements(_, _, _, _, _)
filter_measurements(device, searchDateTo, data, k, r) ==
    IF k > Len(data) THEN r
    ELSE LET m == data[k] IN
         IF SkipUser(device.user, m) \/ SkipDate(searchDateTo, m)
            \/ SkipManual(m)
         THEN filter_measurements(device, searchDateTo, data, k + 1, r)
         ELSE IF device.category = "BPM"
         THEN filter_measurements(device, searchDateTo, data, k + 1,
                                  Append(r, ToBPMeasurement(m)))
         ELSE IF device.category = "SCALE"
         THEN filter_measurements(device, searchDateTo, data, k + 1,
                                  Append(r, ToWeightMeasurement(m)))
         ELSE filter_measurements(device, searchDateTo, data, k + 1, r)

\* "return filter_measurements(data) if data else []"
OmronConnect2_get_measurements(device, searchDateTo, data) ==
    IF data = <<>> THEN <<>>
    ELSE filter_measurements(device, searchDateTo, data, 1, <<>>)

\* ------------------------------------------------------------ strings
\* A Python str is modelled as the sequence of its characters.
UpperLetters == <<"A", "B", "C", "D", "E", "F", "G", "H", "I", "J", "K", "L", "M", "N", "O", "P", "Q", "R", "S", "T", "U", "V", "W", "X", "Y", "Z">>
LowerLetters == <<"a", "b", "c", "d", "e", "f", "g", "h", "i", "j", "k", "l", "m", "n", "o", "p", "q", "r", "s", "t", "u", "v", "w", "x", "y", "z">>

LowerChar(c) ==
    IF \E k \in 1..Len(UpperLetters) : UpperLetters[k] = c
    THEN LowerLetters[CHOOSE k \in 1..Len(UpperLetters) : UpperLetters[k] = c]
    ELSE c

UpperChar(c) ==
    IF \E k \in 1..Len(LowerLetters) : LowerLetters[k] = c
    THEN UpperLetters[CHOOSE k \in 1..Len(LowerLetters) : LowerLetters[k] = c]
    ELSE c

\* str.lower() and str.upper()
str_lower(s) == [k \in 1..Len(s) |-> LowerChar(s[k])]
str_upper(s) == [k \in 1..Len(s) |-> UpperChar(s[k])]

\* str.split(sep) from position k on, piece the characters since the last
\* separator: the list of the pieces between the separators
RECURSIVE str_split(_, _, _, _)
str_split(s, sep, k, piece) ==
    IF k > Len(s) THEN <<piece>>
    ELSE IF s[k] = sep THEN <<piece>> \o str_split(s, sep, k + 1, <<>>)
    ELSE str_split(s, sep, k + 1, Append(piece, s[k]))

\* "".join(pieces)
RECURSIVE str_join(_)
str_join(pieces) ==
    IF pieces = <<>> THEN <<>> ELSE Head(pieces) \o str_join(Tail(pieces))

\* values[start:stop:-1] of a non-empty list (indices from 0; stop = -1
\* stands for the omitted stop): start is clipped to the last index, then
\* the elements down to, and without, index stop
SliceDown(values, start, stop) ==
    LET first == IF start < Len(values) - 1 THEN start ELSE Len(values) - 1
        n == IF first > stop THEN first - stop ELSE 0
    IN [k \in 1..n |-> values[(first - (k - 1)) + 1]]

\* ------------------------------------------------- ble_mac_to_serial
\* values = mac.split(":");
\* "".join(values[5:2:-1] + ["fe", "ff"] + values[2::-1]).lower()
ble_mac_to_serial(mac) ==
    LET values == str_split(mac, ":", 1, <<>>) IN
    str_lower(str_join(SliceDown(values, 5, 2)
                       \o <<<<"f", "e">>, <<"f", "f">>>>
                       \o SliceDown(values, 2, -1)))

\* RX_MACADDR = ^([0-9a-f]{2}[:-]){5}([0-9a-f]{2})$ with re.I
HexDigits == {"0", "1", "2", "3", "4", "5", "6", "7", "8", "9", "a", "b", "c", "d", "e", "f"}

MacSeparatorAt(k) == k % 3 = 0

RX_MACADDR_body(s) ==
    /\ Len(s) = 17
    /\ \A k \in 1..17 :
         IF MacSeparatorAt(k) THEN s[k] \in {":", "-"}
         ELSE LowerChar(s[k]) \in HexDigits

\* "$" also matches before a newline that ends the string
is_valid_macaddr(macaddr) ==
    \/ RX_MACADDR_body(macaddr)
    \/ /\ Len(macaddr) = 18
       /\ macaddr[18] = "\n"
       /\ RX_MACADDR_body(SubSeq(macaddr, 1, 17))

\* ------------------------------------- OmronConnect1.get_measurements
\* How a call ends: with the value it returns or with the exception it
\* raises.
Returns(value) == [raised |-> None, value |-> value]
Raises(exception) == [raised |-> exception, value |-> <<>>]
\* the call has not been made yet
NotCalled == [raised |-> "not called", value |-> <<>>]

\* A Python dict is a function on the set of its keys; {} is <<>>.  A JSON
\* value that may be null is <<>> for null and <<v>> for the value v.
IsEmptyDict(d) == DOMAIN d = {}
HasKey(d, key) == ~IsEmptyDict(d) /\ key \in DOMAIN d

\* class WeightUnit
WeightUnit_G == 8192
WeightUnit_KG == 8195
WeightUnit_LB == 8208
WeightUnit_ST == 8224
\* 0.45359237 kg per pound and 6.35029318 kg per stone, in 1e-5 kg (the
\* factors cut to five decimals, which keeps the products in 32 bits)
LbToKg == 45359
StToKg == 635029

\* class ValueType: the figure codes read by the two _process_* methods
BPFigures == {"1", "2", "3", "7", "6", "8"}
ScaleFigures == {"257", "259", "261", "260", "263", "264", "262"}

\* convert_weight_to_kg(weight, unit), with weight the figure before
\* "/ 100" (hundredths of the unit) and the result in grams
convert_weight_to_kg(weight, unit) ==
    IF unit = WeightUnit_G THEN weight \div 100
    ELSE IF unit = WeightUnit_LB THEN (weight * LbToKg) \div 10000
    ELSE IF unit = WeightUnit_ST THEN (weight * StToKg) \div 10000
    ELSE weight * 10

\* pytz.timezone(name): the zone's offset from UTC, in minutes
pytz_timezone(name) == IF name = "Etc/GMT-1" THEN 60 ELSE 0

\* the body of the loop of _process_bpm_measurements: bodyIndexList[...]
\* raises KeyError for a figure the record does not carry
ProcessBpm(m) ==
    IF \E code \in BPFigures : ~HasKey(m.bodyIndexList, code)
    THEN Raises("KeyError")
    ELSE Returns(BPMeasurement(m.bodyIndexList["1"].value,
                               m.bodyIndexList["2"].value,
                               m.bodyIndexList["3"].value,
                               m.measureDateTo,
                               pytz_timezone(m.timeZone),
                               m.bodyIndexList["6"].value # 0,
                               m.bodyIndexList["7"].value # 0,
                               m.bodyIndexList["8"].value # 0, ""))

\* the body of the loop of _process_scale_measurements; the figures of
\* fat, muscle, visceral fat and BMI are "/ 10"
ProcessScale(m) ==
    IF \E code \in ScaleFigures : ~HasKey(m.bodyIndexList, code)
    THEN Raises("KeyError")
    ELSE Returns(
        [WeightMeasurement(
            convert_weight_to_kg(m.bodyIndexList["257"].value,
                                 m.bodyIndexList["257"].subtype),
            m.measureDateTo, pytz_timezone(m.timeZone),
            m.bodyIndexList["262"].value \div 10,
            m.bodyIndexList["259"].value \div 10,
            m.bodyIndexList["260"].value,
            m.bodyIndexList["261"].value \div 10,
            m.bodyIndexList["264"].value \div 10, "")
         EXCEPT !.metabolicAge = m.bodyIndexList["263"].value])

\* _process_bpm_measurements / _process_scale_measurements: the loop over
\* dev["measureList"] from position k on, r the list so far; an exception
\* of the body leaves the loop and the method
RECURSIVE ProcessMeasureList(_, _, _, _)
ProcessMeasureList(category, measureList, k, r) ==
    IF k > Len(measureList) THEN Returns(r)
    ELSE LET one == IF category = "BPM" THEN ProcessBpm(measureList[k])
                    ELSE ProcessScale(measureList[k])
         IN IF one.raised # None THEN one
            ELSE ProcessMeasureList(category, measureList, k + 1,
                                    Append(r, one.value))

\* _process_device_model: the first entry of deviceSerialIDList with the
\* device's serial is processed, then "break"
RECURSIVE process_device_model(_, _, _)
process_device_model(deviceSerialIDList, device, k) ==
    IF k > Len(deviceSerialIDList) THEN Returns(<<>>)
    ELSE IF deviceSerialIDList[k].deviceSerialID # ble_mac_to_serial(device.macaddr)
    THEN process_device_model(deviceSerialIDList, device, k + 1)
    ELSE IF device.category \in {"BPM", "SCALE"}
    THEN ProcessMeasureList(device.category,
                            deviceSerialIDList[k].measureList, 1, <<>>)
    ELSE Returns(<<>>)

\* "for devModel in deviceModelList: measurements.extend(...)"
RECURSIVE process_device_models(_, _, _, _)
process_device_models(deviceModelList, device, k, r) ==
    IF k > Len(deviceModelList) THEN Returns(r)
    ELSE LET one == process_device_model(
                        deviceModelList[k].deviceSerialIDList, device, 1)
         IN IF one.raised # None THEN one
            ELSE process_device_models(deviceModelList, device, k + 1,
                                       r \o one.value)

\* class DeviceCategory: the member of a code
DeviceCategoryCodes == {"0", "1"}

\* "if isinstance(returnedValue, list): returnedValue = returnedValue[0]";
\* the handler around it catches KeyError only
FirstOfList(returnedValue) ==
    IF returnedValue.isList /\ returnedValue.elems = <<>>
    THEN Raises("IndexError")
    ELSE Returns(returnedValue.elems[1])

\* OmronConnect1.get_measurements on the response resp of the service
OmronConnect1_get_measurements(device, resp) ==
    LET first == FirstOfList(resp.returnedValue) IN
    IF first.raised # None THEN Raises(first.raised)
    ELSE LET returnedValue == first.value IN
    IF HasKey(returnedValue, "errorCode") THEN Returns(<<>>)
    ELSE IF IsEmptyDict(returnedValue) THEN Returns(<<>>)
    ELSE IF ~HasKey(returnedValue, "deviceCategory") THEN Raises("KeyError")
    ELSE IF returnedValue.deviceCategory \notin DeviceCategoryCodes
    THEN Raises("ValueError")
    ELSE IF ~HasKey(returnedValue, "deviceModelList") THEN Raises("KeyError")
    ELSE IF returnedValue.deviceModelList = <<>> THEN Returns(<<>>)
    ELSE process_device_models(returnedValue.deviceModelList[1], device,
                               1, <<>>)

\* oc.get_measurements(ocDev, searchDateFrom, searchDateTo) of the client
\* that get_omron_connect has built
oc_get_measurements(client, device, searchDateTo, answer) ==
    IF client = "OmronConnect1"
    THEN OmronConnect1_get_measurements(device, answer)
    ELSE Returns(OmronConnect2_get_measurements(device, searchDateTo, answer))

\* ------------------------------------------------- comparison keys
\* variant of Lookup that takes the day and the seconds of the local wall
\* clock (dtLocal instead of dtUTC)
Lookup_LocalWall(measurement) ==
    <<((measurement.measurementDate \div MsPerSecond)
          + measurement.timeZone * SecondsPerMinute) \div SecondsPerDay,
      (measurement.measurementDate \div MsPerSecond)
          + measurement.timeZone * SecondsPerMinute,
      measurement.measurementDate % MsPerSecond>>

\* sync_*_measurements: ts = measurementDate / 1000, dtUTC =
\* U.utcfromtimestamp(ts), lookup = f"{dtUTC.date().isoformat()}:{dtUTC.timestamp()}".
\* A key is <<UTC day, whole epoch seconds, milliseconds of the fraction>>.
Lookup(measurement) ==
    <<(measurement.measurementDate \div MsPerSecond) \div SecondsPerDay,
      measurement.measurementDate \div MsPerSecond,
      measurement.measurementDate % MsPerSecond>>

\* variant of DatetimeStr that labels the UTC wall clock with the offset
DatetimeStr_UtcWall(measurement) ==
    [wall |-> measurement.measurementDate \div MsPerSecond,
     offset |-> measurement.timeZone]

\* dtLocal.isoformat(timespec="seconds"): local wall clock, cut to whole
\* seconds, with the UTC offset of the measurement's timezone
DatetimeStr(measurement) ==
    [wall |-> (measurement.measurementDate \div MsPerSecond)
                 + measurement.timeZone * SecondsPerMinute,
     offset |-> measurement.timeZone]

\* dtLocal.date().isoformat(): the local day
DateStr(measurement) == DatetimeStr(measurement).wall \div SecondsPerDay

\* ----------------------------------------------------- target store
\* Garmin Connect keeps a record under the instant of the timestamp string
\* it is given (the string carries whole seconds and the offset)
StoreAdd(store, pk, timestamp) ==
    Append(store, [pk |-> pk,
                   gmt |-> timestamp.wall - timestamp.offset * SecondsPerMinute])

StoreDelete(store, pk) == SelectSeq(store, LAMBDA rec : rec.pk # pk)

\* garmin_get_weighins: timestampGMT is in milliseconds;
\* dtUTC = U.utcfromtimestamp(int(metric["timestampGMT"]) / 1000)
garmin_get_weighins(store) ==
    [k \in 1..Len(store) |->
        LET timestampGMT == store[k].gmt * MsPerSecond IN
        [pk |-> store[k].pk,
         key |-> <<(timestampGMT \div MsPerSecond) \div SecondsPerDay,
                   timestampGMT \div MsPerSecond,
                   timestampGMT % MsPerSecond>>]]

\* garmin_get_bp_measurements: measurementTimestampGMT is an ISO string of
\* whole seconds; dtUTC = datetime.fromisoformat(f"{...}Z")
garmin_get_bp_measurements(store) ==
    [k \in 1..Len(store) |->
        [pk |-> store[k].pk,
         key |-> <<store[k].gmt \div SecondsPerDay, store[k].gmt, 0>>]]

\* variant of KeyPresent with the test inverted: "lookup not in ..."
KeyPresent_Inverted(lookup, data) ==
    ~\E k \in 1..Len(data) : data[k].key = lookup

\* "lookup in gcData.values()"
KeyPresent(lookup, data) == \E k \in 1..Len(data) : data[k].key = lookup

\* ------------------------------------------------------------ payloads
\* "x if x > 0 else None"
OrNone(x) == IF x > 0 THEN x ELSE None

\* arguments of gc.add_body_composition
ScalePayload(wm) ==
    [timestamp |-> DatetimeStr(wm),
     weight |-> wm.weight,
     percent_fat |-> OrNone(wm.bodyFatPercentage),
     percent_hydration |-> None,
     visceral_fat_mass |-> None,
     bone_mass |-> None,
     muscle_mass |-> IF wm.skeletalMusclePercentage > 0
                     THEN (wm.skeletalMusclePercentage * wm.weight) \div 100
                     ELSE None,
     basal_met |-> OrNone(wm.restingMetabolism),
     active_met |-> None,
     physique_rating |-> None,
     metabolic_age |-> OrNone(wm.metabolicAge),
     visceral_fat_rating |-> OrNone(wm.visceralFatLevel),
     bmi |-> wm.bmiValue]

\* notes of sync_bp_measurements: the phrases joined by ", " with the
\* leading ", " stripped, kept here as the list of phrases
Notes(bpm) ==
    (IF bpm.notes = "" THEN <<>> ELSE <<bpm.notes>>)
    \o (IF bpm.movementDetect THEN <<"Body Movement detected">> ELSE <<>>)
    \o (IF bpm.irregularHB THEN <<"Irregular heartbeat detected">> ELSE <<>>)
    \o (IF ~bpm.cuffWrapDetect THEN <<"Cuff wrap error">> ELSE <<>>)

\* arguments of gc.set_blood_pressure
BPPayload(bpm) ==
    [timestamp |-> DatetimeStr(bpm),
     systolic |-> bpm.systolic, diastolic |-> bpm.diastolic,
     pulse |-> bpm.pulse, notes |-> Notes(bpm)]

\* ----------------------------------------------- raw Variant B payloads
RawBP(user, date, manual, tz, sys, dia, pulse, irr, mov, cuff, notes) ==
    [userNumberInDevice |-> user, measurementDate |-> date,
     isManualEntry |-> manual, timeZone |-> tz,
     systolic |-> sys, diastolic |-> dia, pulse |-> pulse,
     irregularHB |-> irr, movementDetect |-> mov, cuffWrapDetect |-> cuff,
     notes |-> notes]

RawWeight(user, date, manual, tz, weight, lbs, bmi, fat, met, muscle, visc, notes) ==
    [userNumberInDevice |-> user, measurementDate |-> date,
     isManualEntry |-> manual, timeZone |-> tz,
     weight |-> weight, weightInLbs |-> lbs, bmiValue |-> bmi,
     bodyFatPercentage |-> fat, restingMetabolism |-> met,
     skeletalMusclePercentage |-> muscle, visceralFatLevel |-> visc,
     notes |-> notes]

\* raw records the filter is exercised on: both user slots, a date below,
\* at and above the upper bound 4000, manual and device entries, and the
\* shapes of the weight fields <<weight, weightInLbs>>: kilograms alone,
\* pounds alone, neither, both, and pounds with a negative weight
FilterDates == {1000, 4000, 5000}
FilterDateTos == {0, 4000}
FilterUsers == {-1, 0, 1}
RawSlots == {1, 2}
RawWeights == {<<70000, 0>>, <<0, 125>>, <<0, 0>>, <<70000, 154>>, <<-1, 125>>}

FilterRawBP ==
    {RawBP(u, d, e, 3600, 120, 80, 60, 0, 1, 1, "") :
        u \in RawSlots, d \in FilterDates, e \in {0, 1}}

FilterRawWeight ==
    {RawWeight(u, d, e, 3600, w[1], w[2], 22, 20, 1500, 40, 5, "") :
        u \in RawSlots, d \in FilterDates, e \in {0, 1}, w \in RawWeights}

FilterRaw(category) ==
    IF category = "BPM" THEN FilterRawBP ELSE FilterRawWeight

Categories == {"BPM", "SCALE"}

\* ------------------------------------------------------------------------
\* Specification of OmronConnect2.get_measurements alone: any device, upper
\* bound and raw list, then the call.
\* ------------------------------------------------------------------------
IdleSync ==
    /\ opts = [overwrite |-> FALSE, write_to_garmin |-> TRUE]
    /\ ocDev = [category |-> "SCALE", user |-> 1]
    /\ window = <<0, 0>>
    /\ source = <<>>
    /\ garmin = <<>>
    /\ nextPk = 1
    /\ pc = "idle"
    /\ measurements = <<>>
    /\ gcData = <<>>
    /\ mi = 0
    /\ gi = 0
    /\ run = 0
    /\ calls = <<>>
    /\ log = <<>>
    /\ ended = <<>>

\* no "sync" command is running; the source client is the Variant B one
IdleCmd ==
    /\ oc = "OmronConnect2"
    /\ devices = <<>>
    /\ args = None
    /\ clock = None
    /\ cloud = <<>>
    /\ stores = None
    /\ selected = <<>>
    /\ di = 0
    /\ spc = "idle"

FilterInit ==
    /\ IdleSync
    /\ IdleCmd
    /\ \E c \in Categories, u \in FilterUsers, t \in FilterDateTos :
         \E d \in SeqsUpTo(FilterRaw(c), MaxRaw) :
            query = [device |-> [category |-> c, user |-> u],
                     searchDateTo |-> t, data |-> d]
    /\ result = None

CallGetMeasurements ==
    /\ result = None
    /\ result' = OmronConnect2_get_measurements(query.device,
                                                query.searchDateTo, query.data)
    /\ UNCHANGED <<query, syncVars, cmdVars>>

FilterNext == CallGetMeasurements

SpecFilter == FilterInit /\ [][FilterNext]_vars

\* ------------------------------------------------------------------------
\* Specification of the sync of one device: omron_sync_device_to_garmin is
\* invoked up to MaxRuns times on the same device, window and source data.
\* Every call to the source service or to the target store is one step; a
\* call either returns or raises, and an exception ends the invocation (no
\* handler catches it between the call and the command's exit).
\* ------------------------------------------------------------------------
SyncRawWeight ==
    {RawWeight(1, 1000, 0, 0, 70000, 0, 22, 20, 1500, 40, 5, ""),
     RawWeight(1, 1500, 0, 3600, 0, 125, -1, -1, -1, -1, -1, "")}

SyncRawBP ==
    {RawBP(1, 1000, 0, 0, 120, 80, 60, 0, 0, 1, ""),
     RawBP(1, 1500, 0, 3600, 135, 85, 70, 1, 1, 0, "after a run")}

SyncRaw(category) ==
    IF category = "BPM" THEN SyncRawBP ELSE SyncRawWeight

\* <<startLocal, endLocal>>: a window that covers the data, an empty one
Windows == {<<0, 4>>, <<4, 4>>}

\* instants (epoch seconds) of the records the store holds at the start
ExistingTimes == {1, 2}

InitialStores ==
    UNION {{[k \in 1..n |-> [pk |-> k, gmt |-> t[k]]] :
               t \in [1..n -> ExistingTimes]} : n \in 0..MaxExisting}

IdleFilter == query = None /\ result = None

Init ==
    /\ opts \in [overwrite : BOOLEAN, write_to_garmin : BOOLEAN]
    /\ ocDev \in [category : Categories, user : {1}]
    /\ window \in Windows
    /\ source \in SeqsUpTo(SyncRaw(ocDev.category), MaxFetched)
    /\ garmin \in InitialStores
    /\ nextPk = Len(garmin) + 1
    /\ pc = "start"
    /\ measurements = <<>>
    /\ gcData = <<>>
    /\ mi = 0
    /\ gi = 0
    /\ run = 1
    /\ calls = <<>>
    /\ log = <<>>
    /\ ended = <<>>
    /\ IdleFilter
    /\ IdleCmd

Call(op, pk, cdate, payload, ok) ==
    [run |-> run, dev |-> di, mi |-> mi, op |-> op, pk |-> pk,
     cdate |-> cdate, payload |-> payload, ok |-> ok,
     raised |-> IF ok THEN None ELSE "HTTPError"]

Logged(action) == [run |-> run, dev |-> di, mi |-> mi, action |-> action]

End(outcome) ==
    ended' = Append(ended, [run |-> run, dev |-> di, outcome |-> outcome,
                            opts |-> opts])

\* omron_sync_device_to_garmin up to the fetch from the source service
SyncStart ==
    /\ pc = "start"
    /\ IF window[2] - window[1] <= 0
       THEN /\ pc' = "done"
            /\ End("done")
            /\ UNCHANGED <<measurements, calls>>
       ELSE \E answered \in BOOLEAN :
            LET fetch == IF answered
                         THEN oc_get_measurements(
                                  oc, ocDev, window[2] * MsPerSecond, source)
                         ELSE Raises("HTTPError")
                ok == fetch.raised = None
            IN
            /\ calls' = Append(calls,
                    [Call("fetch", None, None, None, ok)
                     EXCEPT !.raised = fetch.raised])
            /\ IF ok
               THEN /\ measurements' = fetch.value
                    /\ IF measurements' = <<>>
                       THEN pc' = "done" /\ End("done")
                       ELSE pc' = "query" /\ UNCHANGED ended
               ELSE /\ pc' = "aborted"
                    /\ End("aborted")
                    /\ UNCHANGED measurements
    /\ UNCHANGED <<opts, ocDev, window, source, garmin, nextPk, gcData, mi,
                   gi, run, log, filterVars, cmdVars>>

\* garmin_get_weighins / garmin_get_bp_measurements, by the device category
QueryStore ==
    /\ pc = "query"
    /\ \E ok \in BOOLEAN :
        /\ calls' = Append(calls, Call("query", None, None, None, ok))
        /\ IF ok
           THEN /\ gcData' = IF ocDev.category = "SCALE"
                             THEN garmin_get_weighins(garmin)
                             ELSE garmin_get_bp_measurements(garmin)
                /\ mi' = 1
                /\ pc' = "loop"
                /\ UNCHANGED ended
           ELSE /\ pc' = "aborted"
                /\ End("aborted")
                /\ UNCHANGED <<gcData, mi>>
    /\ UNCHANGED <<opts, ocDev, window, source, garmin, nextPk, measurements,
                   gi, run, log, filterVars, cmdVars>>

\* variant of Decision that looks the key up in the store as it is now
Decision_LiveStore(measurement, data, o) ==
    IF KeyPresent(Lookup(measurement),
                  IF ocDev.category = "SCALE" THEN garmin_get_weighins(garmin)
                  ELSE garmin_get_bp_measurements(garmin))
    THEN IF o.overwrite THEN "remove" ELSE "skip"
    ELSE "add"

\* variant of Decision that overwrites without removing the existing record
Decision_NoRemove(measurement, data, o) ==
    IF KeyPresent(Lookup(measurement), data)
    THEN IF o.overwrite THEN "add" ELSE "skip"
    ELSE "add"

\* variant of Decision that takes a dry run for a run without overwrite
Decision_DryRunSkips(measurement, data, o) ==
    IF KeyPresent(Lookup(measurement), data)
    THEN IF o.overwrite /\ o.write_to_garmin THEN "remove" ELSE "skip"
    ELSE "add"

\* "if lookup in gcData.values(): if opts.overwrite: ... else: ... continue"
Decision(measurement, data, o) ==
    IF KeyPresent(Lookup(measurement), data)
    THEN IF o.overwrite THEN "remove" ELSE "skip"
    ELSE "add"

\* head of the loop body of sync_*_measurements: is the key present?
Decide ==
    /\ pc = "loop"
    /\ mi <= Len(measurements)
    /\ LET d == Decision(measurements[mi], gcData, opts) IN
       CASE d = "remove" ->
                 /\ log' = Append(log, Logged("remove"))
                 /\ gi' = 1
                 /\ pc' = "delete"
                 /\ UNCHANGED mi
         [] d = "skip" ->
                 /\ log' = Append(log, Logged("skip"))
                 /\ mi' = mi + 1
                 /\ UNCHANGED <<gi, pc>>
         [] OTHER ->
                 /\ pc' = "add"
                 /\ UNCHANGED <<log, mi, gi>>
    /\ UNCHANGED <<opts, ocDev, window, source, garmin, nextPk, measurements,
                   gcData, run, calls, ended, filterVars, cmdVars>>

\* variant of ToDelete without the test of the key
ToDelete_AnyKey(data, lookup, from, write) ==
    {k \in from..Len(data) : write}

\* variant of ToDelete that stops at the first matching record
ToDelete_Break(data, lookup, from, write) ==
    {k \in from..Len(data) :
        /\ data[k].key = lookup
        /\ write
        /\ \A j \in 1..(k - 1) : data[j].key # lookup}

\* items of gcData, from position `from` on, the inner loop deletes:
\* "if val == lookup and opts.write_to_garmin"
ToDelete(data, lookup, from, write) ==
    {k \in from..Len(data) : data[k].key = lookup /\ write}

\* variant of AfterDelete with the exception of a failed delete swallowed
AfterDelete_Swallow(ok) == "delete"

\* where the invocation stands after gc.delete_*: nothing catches what the
\* call raises, so a failed delete ends the invocation
AfterDelete(ok) == IF ok THEN "delete" ELSE "aborted"

\* variant of FailedCall that takes back the adds the invocation has made
FailedCall_Rollback(store) ==
    SelectSeq(store, LAMBDA rec : \E g \in 1..Len(gcData) : gcData[g].pk = rec.pk)

\* the target store after a gc.delete_* or gc.add_* / gc.set_* call that
\* raised: the failed call wrote nothing, and no handler of the loops or of
\* their callers undoes an earlier call
FailedCall(store) == store

\* "for samplePk, val in gcData.items(): if val == lookup and
\* opts.write_to_garmin: gc.delete_...": up to and including the next call
DeleteExisting ==
    /\ pc = "delete"
    /\ LET todo == ToDelete(gcData, Lookup(measurements[mi]), gi,
                            opts.write_to_garmin)
       IN IF todo = {}
          THEN /\ gi' = Len(gcData) + 1
               /\ pc' = "add"
               /\ UNCHANGED <<garmin, calls, ended>>
          ELSE LET k == CHOOSE x \in todo : \A y \in todo : x <= y IN
               \E ok \in BOOLEAN :
               /\ calls' = Append(calls,
                                  Call("delete", gcData[k].pk,
                                       DateStr(measurements[mi]), None, ok))
               /\ garmin' = IF ok THEN StoreDelete(garmin, gcData[k].pk)
                            ELSE FailedCall(garmin)
               /\ pc' = AfterDelete(ok)
               /\ IF pc' = "aborted"
                  THEN End("aborted") /\ UNCHANGED gi
                  ELSE gi' = k + 1 /\ UNCHANGED ended
    /\ UNCHANGED <<opts, ocDev, window, source, nextPk, measurements, gcData,
                   mi, run, log, filterVars, cmdVars>>

\* the payload of the add call, by the device category
Payload(measurement) ==
    IF ocDev.category = "SCALE" THEN ScalePayload(measurement)
    ELSE BPPayload(measurement)

\* tail of the loop body: log the add and, unless dry-run, issue it
AddMeasurement ==
    /\ pc = "add"
    /\ log' = Append(log, Logged("add"))
    /\ IF opts.write_to_garmin
       THEN \E ok \in BOOLEAN :
            /\ calls' = Append(calls,
                               Call("add", None, None,
                                    Payload(measurements[mi]), ok))
            /\ IF ok
               THEN /\ garmin' = StoreAdd(garmin, nextPk,
                                          Payload(measurements[mi]).timestamp)
                    /\ nextPk' = nextPk + 1
                    /\ mi' = mi + 1
                    /\ pc' = "loop"
                    /\ UNCHANGED ended
               ELSE /\ pc' = "aborted"
                    /\ End("aborted")
                    /\ garmin' = FailedCall(garmin)
                    /\ UNCHANGED <<nextPk, mi>>
       ELSE /\ mi' = mi + 1
            /\ pc' = "loop"
            /\ UNCHANGED <<garmin, nextPk, calls, ended>>
    /\ UNCHANGED <<opts, ocDev, window, source, measurements, gcData, gi, run,
                   filterVars, cmdVars>>

\* the loop is exhausted: sync_*_measurements and the invocation return
SyncReturn ==
    /\ pc = "loop"
    /\ mi > Len(measurements)
    /\ pc' = "done"
    /\ End("done")
    /\ UNCHANGED <<opts, ocDev, window, source, garmin, nextPk, measurements,
                   gcData, mi, gi, run, calls, log, filterVars, cmdVars>>

\* the operator runs the sync of the same device again (same window, same
\* source data, same --overwrite; --no-write possibly changed)
Rerun ==
    /\ pc \in {"done", "aborted"}
    /\ run < MaxRuns
    /\ run' = run + 1
    /\ \E w \in BOOLEAN : opts' = [opts EXCEPT !.write_to_garmin = w]
    /\ pc' = "start"
    /\ measurements' = <<>>
    /\ gcData' = <<>>
    /\ mi' = 0
    /\ gi' = 0
    /\ UNCHANGED <<ocDev, window, source, garmin, nextPk, calls, log, ended,
                   filterVars, cmdVars>>

Next ==
    \/ SyncStart
    \/ QueryStore
    \/ Decide
    \/ DeleteExisting
    \/ AddMeasurement
    \/ SyncReturn
    \/ Rerun

Spec == Init /\ [][Next]_vars

\* ------------------------------------------------------------------------
\* Specification of the sync of one device against the Variant A service:
\* omron_sync_device_to_garmin with an OmronConnect1 client, once, on any
\* of the responses below.
\* ------------------------------------------------------------------------
\* BodyIndexList(*v): the value and the subtype (unit) of one figure
BodyIndexList(value, subtype) == [value |-> value, subtype |-> subtype]

\* one entry of measureList; the figures in `without` are left out
V1Measure(figures, without, date, zone, first, unit) ==
    [bodyIndexList |->
        [code \in figures \ without |->
            IF code \in {"1", "257"} THEN BodyIndexList(first, unit)
            ELSE IF code \in {"6", "7"} THEN BodyIndexList(0, 0)
            ELSE IF code = "8" THEN BodyIndexList(1, 0)
            ELSE BodyIndexList(250, 0)],
     measureDateTo |-> date, timeZone |-> zone]

\* a weighing of 70.00 kg, one of 154.00 lb, one with the figure 0, and one
\* without the weight figure
V1ScaleMeasures ==
    {V1Measure(ScaleFigures, {}, 1000, "UTC", 7000, WeightUnit_KG),
     V1Measure(ScaleFigures, {}, 1500, "Etc/GMT-1", 15400, WeightUnit_LB),
     V1Measure(ScaleFigures, {}, 2000, "UTC", 0, WeightUnit_KG),
     V1Measure(ScaleFigures, {"257"}, 2000, "UTC", 7000, WeightUnit_KG)}

\* two readings and one without the pulse figure
V1BPMeasures ==
    {V1Measure(BPFigures, {}, 1000, "UTC", 120, 0),
     V1Measure(BPFigures, {}, 1500, "Etc/GMT-1", 135, 0),
     V1Measure(BPFigures, {"3"}, 2000, "UTC", 120, 0)}

V1Measures(category) ==
    IF category = "BPM" THEN V1BPMeasures ELSE V1ScaleMeasures

\* the BLE address of the synced device, its serial and another serial
V1Mac == <<"1", "1", ":", "2", "2", ":", "3", "3", ":", "4", "4", ":", "5", "5", ":", "6", "6">>
V1Serial == <<"6", "6", "5", "5", "4", "4", "f", "e", "f", "f", "3", "3", "2", "2", "1", "1">>
V1OtherSerial == <<"6", "6", "5", "5", "4", "4", "f", "e", "f", "f", "3", "3", "2", "2", "1", "0">>

V1Dev(serial, measureList) ==
    [deviceSerialID |-> serial, userNumberInDevice |-> 1,
     measureList |-> measureList]

\* deviceModelList: null, or one model that lists the device, alone or
\* after another device
V1ModelLists(category) ==
    {<<>>}
    \cup {<< <<[deviceModel |-> "model",
                deviceSerialIDList |-> before \o <<V1Dev(V1Serial, l)>>]>> >> :
            l \in SeqsUpTo(V1Measures(category), MaxFetched),
            before \in {<<>>,
                        <<V1Dev(V1OtherSerial,
                                <<V1Measure(BPFigures \cup ScaleFigures, {},
                                            1000, "UTC", 1, WeightUnit_KG)>>)>>}}

CategoryCode(category) == IF category = "BPM" THEN "0" ELSE "1"

\* the dicts a response carries: an error, {}, an answer for the category
\* of the device, an answer with a category code outside DeviceCategory
V1Dicts(category) ==
    {[errorCode |-> "E"], <<>>}
    \cup {[deviceCategory |-> CategoryCode(category), deviceModelList |-> l] :
            l \in V1ModelLists(category)}
    \cup {[deviceCategory |-> "2", deviceModelList |-> <<>>]}

\* returnedValue is a dict, a list of one dict, or the empty list
V1Responses(category) ==
    {[returnedValue |-> [isList |-> TRUE, elems |-> <<>>]]}
    \cup {[returnedValue |-> [isList |-> b, elems |-> <<d>>]] :
            b \in BOOLEAN, d \in V1Dicts(category)}

V1Stores == {<<>>, <<[pk |-> 1, gmt |-> 1]>>}

InitA ==
    /\ opts \in [overwrite : BOOLEAN, write_to_garmin : BOOLEAN]
    /\ ocDev \in [category : Categories, user : {1}, macaddr : {V1Mac}]
    /\ window = <<0, 4>>
    /\ source \in V1Responses(ocDev.category)
    /\ garmin \in V1Stores
    /\ nextPk = Len(garmin) + 1
    /\ pc = "start"
    /\ measurements = <<>>
    /\ gcData = <<>>
    /\ mi = 0
    /\ gi = 0
    /\ run = 1
    /\ calls = <<>>
    /\ log = <<>>
    /\ ended = <<>>
    /\ IdleFilter
    /\ oc = "OmronConnect1"
    /\ devices = <<>>
    /\ args = None
    /\ clock = None
    /\ cloud = <<>>
    /\ stores = None
    /\ selected = <<>>
    /\ di = 0
    /\ spc = "idle"

NextA ==
    \/ SyncStart
    \/ QueryStore
    \/ Decide
    \/ DeleteExisting
    \/ AddMeasurement
    \/ SyncReturn

SpecA == InitA /\ [][NextA]_vars

\* ------------------------------------------------------------------------
\* filter_devices (src/omramin.py) and its specification: any device list,
\* names and category, then the call.
\* ------------------------------------------------------------------------
\* DeviceCategory.<member>.name as a str
MemberName(member) ==
    IF member = "BPM" THEN <<"B", "P", "M">> ELSE <<"S", "C", "A", "L", "E">>

\* "x in list"
In(x, list) == \E k \in 1..Len(list) : list[k] = x

\* variant of KeepEnabled that keeps disabled devices too
KeepEnabled_All(d) == TRUE

\* "if d["enabled"]"
KeepEnabled(d) == d.enabled

\* variant of NameMatch that asks for the name and the address together
NameMatch_Both(d, devnames) == In(d.name, devnames) /\ In(d.macaddr, devnames)

\* "d["name"] in devnames or d["macaddr"] in devnames"
NameMatch(d, devnames) == In(d.name, devnames) \/ In(d.macaddr, devnames)

filter_devices(devs, devnames, category) ==
    LET enabled == SelectSeq(devs, KeepEnabled)
        ofCategory ==
            IF category # None
            THEN SelectSeq(enabled,
                           LAMBDA d : d.category = MemberName(category))
            ELSE enabled
    IN IF devnames # <<>>
       THEN SelectSeq(ofCategory, LAMBDA d : NameMatch(d, devnames))
       ELSE ofCategory

\* device entries: two names, a lower-case and an upper-case address, both
\* categories, enabled or not
MacUpper == <<"A", "A", ":", "B", "B", ":", "C", "C", ":", "D", "D", ":", "E", "E", ":", "F", "F">>
MacUpperLowered == <<"a", "a", ":", "b", "b", ":", "c", "c", ":", "d", "d", ":", "e", "e", ":", "f", "f">>
NameA == <<"m", "y", " ", "s", "c", "a", "l", "e">>
NameB == <<"c", "u", "f", "f">>

DeviceEntries ==
    [name : {NameA, NameB}, macaddr : {V1Mac, MacUpper},
     category : {MemberName("BPM"), MemberName("SCALE")},
     user : {1}, enabled : BOOLEAN]

\* DEVNAMES: none, a name, an address, the serial of that address, an
\* address in the other letter case, a name and an address together
DevNames ==
    {<<>>, <<NameA>>, <<V1Mac>>, <<V1Serial>>, <<MacUpperLowered>>,
     <<NameB, V1Mac>>}

DevicesInit ==
    /\ IdleSync
    /\ IdleCmd
    /\ query \in [devices : SeqsUpTo(DeviceEntries, MaxListed),
                  devnames : DevNames,
                  category : {None, "BPM", "SCALE"}]
    /\ result = None

CallFilterDevices ==
    /\ result = None
    /\ result' = filter_devices(query.devices, query.devnames, query.category)
    /\ UNCHANGED <<query, syncVars, cmdVars>>

DevicesNext == CallFilterDevices

SpecDevices == DevicesInit /\ [][DevicesNext]_vars

\* ------------------------------------------------------------------------
\* calculate_date_range (src/omramin.py) and its specification: any --days
\* on any local calendar, then the call.
\*
\* A local calendar is [today, offStart, offEnd]: today is the local date
\* as a day number, offStart[d] the UTC offset (seconds) the platform
\* applies to the local midnight d days back, offEnd the offset it applies
\* to the end of today.  A naive datetime's timestamp() is its wall clock
\* minus that offset.  Times are whole seconds; the end of the day carries
\* the fraction .999999 on top.
\* ------------------------------------------------------------------------
\* "days = max(days, 0)"
ClampDays(days) == IF days > 0 THEN days ELSE 0

\* variant of DayEnd that takes the first instant of the day
DayEnd_Midnight(day) == day * SecondsPerDay

\* datetime.combine(date, datetime.max.time()): 23:59:59(.999999)
DayEnd(day) == day * SecondsPerDay + (SecondsPerDay - 1)

\* datetime.combine(date, datetime.min.time()): 00:00:00
DayStart(day) == day * SecondsPerDay

\* variant of EmptyWindow that lets every window through
EmptyWindow_Never(startLocal, endLocal) == FALSE

\* "endLocal - startLocal <= 0" on the two floats, endLocal with its
\* fraction: it holds exactly when the whole seconds of endLocal are below
\* startLocal
EmptyWindow(startLocal, endLocal) == endLocal < startLocal

\* "if endLocal - startLocal <= 0: raise DateRangeException()", else
\* "return int(startLocal), int(endLocal)"
calculate_date_range(days, cal) ==
    LET startLocal == DayStart(cal.today - ClampDays(days))
                         - cal.offStart[ClampDays(days)]
        endLocal == DayEnd(cal.today) - cal.offEnd
    IN IF EmptyWindow(startLocal, endLocal)
       THEN Raises("DateRangeException")
       ELSE Returns(<<startLocal, endLocal>>)

\* the local date, and the offsets of a zone that once moved across the
\* date line (UTC-10, then UTC+13 and UTC+14)
Todays == {20000}
TzOffsets == {-36000, 46800, 50400}

Calendars(maxDays) ==
    [today : Todays, offStart : [0..maxDays -> TzOffsets], offEnd : TzOffsets]

DatesInit ==
    /\ IdleSync
    /\ IdleCmd
    /\ query \in [days : (-2)..MaxDays, cal : Calendars(MaxDays + 1)]
    /\ result = NotCalled

CallCalculateDateRange ==
    /\ result = NotCalled
    /\ result' = calculate_date_range(query.days, query.cal)
    /\ UNCHANGED <<query, syncVars, cmdVars>>

DatesNext == CallCalculateDateRange

SpecDates == DatesInit /\ [][DatesNext]_vars

\* ------------------------------------------------------------------------
\* OmronDevice (src/omronconnect.py) and its specification: any device
\* entry of the configuration, then OmronDevice(**entry).
\* ------------------------------------------------------------------------
\* variant of IsMemberName that takes every string for a member name
IsMemberName_Any(s) == TRUE

\* "s in DeviceCategory.__members__"
IsMemberName(s) == s \in {MemberName("BPM"), MemberName("SCALE")}

\* DeviceCategory.__members__[s]
DeviceCategory_members(s) == IF s = MemberName("BPM") THEN "BPM" ELSE "SCALE"

\* OmronDevice(**entry) with a str category: __post_init__ looks the
\* upper-cased string up in the members; on KeyError it sets enabled to
\* False on the object and raises ValueError.  The value is the object as
\* __post_init__ leaves it; its category is None where the attribute still
\* holds the string that names no member.
OmronDevice(entry) ==
    IF IsMemberName(str_upper(entry.category))
    THEN [raised |-> None,
          value |-> [name |-> entry.name, macaddr |-> entry.macaddr,
                     category |-> DeviceCategory_members(str_upper(entry.category)),
                     user |-> entry.user, enabled |-> entry.enabled]]
    ELSE [raised |-> "ValueError",
          value |-> [name |-> entry.name, macaddr |-> entry.macaddr,
                     category |-> None,
                     user |-> entry.user, enabled |-> FALSE]]

\* category strings: member names in three letter cases, the name of a
\* category the enum does not have, the enum's values, a near miss, ""
CategoryStrings ==
    {<<"B", "P", "M">>, <<"b", "p", "m">>, <<"S", "C", "A", "L", "E">>,
     <<"S", "c", "a", "l", "e">>, <<"s", "c", "a", "l", "e">>,
     <<"A", "C", "T", "I", "V", "I", "T", "Y">>, <<"0">>, <<"1">>,
     <<"s", "c", "a", "l", "e", "s">>, <<>>}

EntryInit ==
    /\ IdleSync
    /\ IdleCmd
    /\ query \in [name : {NameA, NameB}, macaddr : {V1Mac},
                  category : CategoryStrings, user : {1, 2},
                  enabled : BOOLEAN]
    /\ result = NotCalled

CallOmronDevice ==
    /\ result = NotCalled
    /\ result' = OmronDevice(query)
    /\ UNCHANGED <<query, syncVars, cmdVars>>

EntryNext == CallOmronDevice

SpecEntry == EntryInit /\ [][EntryNext]_vars

\* ------------------------------------------------------------------------
\* Specification of ble_mac_to_serial alone: any address that
\* is_valid_macaddr accepts, then the call.
\* ------------------------------------------------------------------------
\* the address of six octets with the five separators between them
MacOf(octets, separators) ==
    octets[1] \o <<separators[1]>> \o octets[2] \o <<separators[2]>>
    \o octets[3] \o <<separators[3]>> \o octets[4] \o <<separators[4]>>
    \o octets[5] \o <<separators[5]>> \o octets[6]

\* per position, the octet of 11:22:33:44:55:66 or one with letters
OctetChoices ==
    [k \in 1..6 |->
        {<<<<"1", "1">>, <<"2", "2">>, <<"3", "3">>, <<"4", "4">>, <<"5", "5">>, <<"6", "6">>>>[k],
         <<<<"A", "b">>, <<"c", "D">>, <<"E", "F">>, <<"0", "a">>, <<"9", "B">>, <<"f", "7">>>>[k]}]

MacInputs ==
    {m \in {MacOf(<<o1, o2, o3, o4, o5, o6>>, sep) :
                o1 \in OctetChoices[1], o2 \in OctetChoices[2],
                o3 \in OctetChoices[3], o4 \in OctetChoices[4],
                o5 \in OctetChoices[5], o6 \in OctetChoices[6],
                sep \in [1..5 -> {":", "-"}]} :
        is_valid_macaddr(m)}

MacInit ==
    /\ IdleSync
    /\ IdleCmd
    /\ query \in [mac : MacInputs]
    /\ result = NotCalled

CallBleMacToSerial ==
    /\ result = NotCalled
    /\ result' = Returns(ble_mac_to_serial(query.mac))
    /\ UNCHANGED <<query, syncVars, cmdVars>>

MacNext == CallBleMacToSerial

SpecMac == MacInit /\ [][MacNext]_vars

\* ------------------------------------------------------------------------
\* Specification of the "sync" command: sync_device (src/omramin.py) over
\* the configured devices, with omron_sync_device_to_garmin for each device
\* that filter_devices leaves.  The client is the Variant B one.  The
\* source service holds data by device address; the target store is one
\* list per category, and `garmin` is the list of the category of the
\* device being synced.  The specification also starts from
\* omron_sync_device_to_garmin called on its own (spc = "direct") with a
\* window of the caller's choice.
\* ------------------------------------------------------------------------
\* a raw record with the fields of both categories
RunSample ==
    RawBP(1, 1000, 0, 0, 120, 80, 60, 0, 0, 1, "")
    @@ RawWeight(1, 1000, 0, 0, 70000, 0, 22, 20, 1500, 40, 5, "")

\* a scale, a blood pressure monitor, an entry with a category the enum
\* does not have, a disabled scale
RunEntries ==
    {[name |-> NameA, macaddr |-> V1Mac, category |-> MemberName("SCALE"), user |-> 1, enabled |-> TRUE],
     [name |-> NameB, macaddr |-> MacUpper, category |-> MemberName("BPM"), user |-> 1, enabled |-> TRUE],
     [name |-> NameB, macaddr |-> MacUpper, category |-> <<"A", "C", "T", "I", "V", "I", "T", "Y">>, user |-> 1, enabled |-> TRUE],
     [name |-> NameA, macaddr |-> V1Mac, category |-> MemberName("SCALE"), user |-> 1, enabled |-> FALSE]}

\* DEVNAMES, --category and --days
RunArgs ==
    {[devnames |-> <<>>, category |-> None, days |-> 0],
     [devnames |-> <<NameA, MacUpper>>, category |-> None, days |-> 1],
     [devnames |-> <<>>, category |-> "SCALE", days |-> 0]}

\* a calendar with one offset, and one whose offset moves by a day between
\* the midnight and the end of today
RunCalendars ==
    {[today |-> 0, offStart |-> [d \in 0..1 |-> -36000], offEnd |-> e] :
        e \in {-36000, 50400}}

RunStores ==
    {[SCALE |-> <<>>, BPM |-> <<>>],
     [SCALE |-> <<[pk |-> 1, gmt |-> 1]>>, BPM |-> <<>>]}

CommandInit ==
    /\ opts \in [overwrite : BOOLEAN, write_to_garmin : {TRUE}]
    /\ ocDev = [category |-> "SCALE", user |-> 1]
    /\ window = <<0, 0>>
    /\ source = <<>>
    /\ garmin = <<>>
    /\ stores \in RunStores
    /\ nextPk = Len(stores.SCALE) + Len(stores.BPM) + 1
    /\ pc = "idle"
    /\ measurements = <<>>
    /\ gcData = <<>>
    /\ mi = 0
    /\ gi = 0
    /\ run = 1
    /\ calls = <<>>
    /\ log = <<>>
    /\ ended = <<>>
    /\ IdleFilter
    /\ oc = "OmronConnect2"
    /\ devices \in SeqsUpTo(RunEntries, MaxDevices)
    /\ args \in RunArgs
    /\ clock \in RunCalendars
    /\ cloud \in [{V1Mac, MacUpper} -> {<<>>, <<RunSample>>}]
    /\ selected = <<>>
    /\ di = 0
    /\ spc = "start"

DirectInit ==
    /\ opts \in [overwrite : BOOLEAN, write_to_garmin : BOOLEAN]
    /\ ocDev = [category |-> "SCALE", user |-> 1]
    /\ window \in Windows
    /\ source \in {<<>>, <<RunSample>>}
    /\ garmin \in V1Stores
    /\ stores = None
    /\ nextPk = Len(garmin) + 1
    /\ pc = "start"
    /\ measurements = <<>>
    /\ gcData = <<>>
    /\ mi = 0
    /\ gi = 0
    /\ run = 1
    /\ calls = <<>>
    /\ log = <<>>
    /\ ended = <<>>
    /\ IdleFilter
    /\ oc = "OmronConnect2"
    /\ devices = <<>>
    /\ args = None
    /\ clock = None
    /\ cloud = <<>>
    /\ selected = <<>>
    /\ di = 0
    /\ spc = "direct"

RunInit == CommandInit \/ DirectInit

\* sync_device up to the logins: the configuration is read, the window is
\* computed, the devices are filtered; each "return" ends the command
SyncDeviceBegin ==
    /\ spc = "start"
    /\ \E found \in BOOLEAN :
         LET range == calculate_date_range(args.days, clock)
             left == filter_devices(devices, args.devnames, args.category)
         IN IF ~found \/ devices = <<>> \/ range.raised # None \/ left = <<>>
            THEN /\ spc' = "returned"
                 /\ UNCHANGED <<window, selected>>
            ELSE /\ spc' = "login"
                 /\ window' = range.value
                 /\ selected' = left
    /\ UNCHANGED <<opts, ocDev, source, garmin, nextPk, pc, measurements,
                   gcData, mi, gi, run, calls, log, ended, filterVars,
                   oc, devices, args, clock, cloud, stores, di>>

\* how a login call ended, as a call record: ok tells that it gave a client,
\* raised is LoginError when it raised and None when it returned
LoginCall(op, outcome) ==
    [Call(op, None, None, None, outcome = "client")
     EXCEPT !.raised = IF outcome = "LoginError" THEN "LoginError" ELSE None]

\* variant of LoggedIn that goes on when one of the two clients is there
LoggedIn_Either(gc, client) == gc = "client" \/ client = "client"

\* "if not oc or not gc: return" read the other way: both logins gave a
\* client
LoggedIn(gc, client) == gc = "client" /\ client = "client"

\* garmin_login, then omron_login: each returns a client, returns None or
\* raises LoginError; "if not oc or not gc: return"
Login ==
    /\ spc = "login"
    /\ \E g \in {"client", "None", "LoginError"} :
         IF g = "LoginError"
         THEN /\ calls' = Append(calls, LoginCall("garmin_login", g))
              /\ spc' = "returned"
         ELSE \E o \in {"client", "None", "LoginError"} :
              /\ calls' = calls \o <<LoginCall("garmin_login", g),
                                     LoginCall("omron_login", o)>>
              /\ spc' = IF o # "LoginError" /\ LoggedIn(g, o) THEN "loop"
                        ELSE "returned"
    /\ UNCHANGED <<opts, ocDev, window, source, garmin, nextPk, pc,
                   measurements, gcData, mi, gi, run, log, ended, filterVars,
                   oc, devices, args, clock, cloud, stores, selected, di>>

\* the stores once the sync of the current device has returned
StoresAfter ==
    IF pc = "done" THEN [stores EXCEPT ![ocDev.category] = garmin]
    ELSE stores

\* an exception in the body of "for device in devices" is caught nowhere:
\* it leaves the loop and sync_device
AfterDeviceError(position) == "raised"

\* variant of NextIndex that never leaves the first device
NextIndex_Stuck(i) == IF i = 0 THEN 1 ELSE i

\* "for device in devices": the position in the list after position i
NextIndex(i) == i + 1

\* "for device in devices": the sync of the previous device has returned
\* (and is logged as synced); the next entry is constructed and its sync
\* is started, or the loop is over
NextDevice ==
    /\ spc = "loop"
    /\ pc \in {"idle", "done"}
    /\ stores' = StoresAfter
    /\ log' = IF pc = "done" THEN Append(log, Logged("synced")) ELSE log
    /\ IF di = Len(selected)
       THEN /\ spc' = "returned"
            /\ pc' = "idle"
            /\ UNCHANGED <<ocDev, source, garmin, di>>
       ELSE LET ocDevNew == OmronDevice(selected[NextIndex(di)]) IN
            /\ di' = NextIndex(di)
            /\ IF ocDevNew.raised # None
               THEN /\ spc' = AfterDeviceError("construct")
                    /\ pc' = "idle"
                    /\ UNCHANGED <<ocDev, source, garmin>>
               ELSE /\ spc' = "loop"
                    /\ pc' = "start"
                    /\ ocDev' = ocDevNew.value
                    /\ source' = cloud[ocDevNew.value.macaddr]
                    /\ garmin' = stores'[ocDevNew.value.category]
    /\ measurements' = <<>>
    /\ gcData' = <<>>
    /\ mi' = 0
    /\ gi' = 0
    /\ UNCHANGED <<opts, window, nextPk, run, calls, ended, filterVars,
                   oc, devices, args, clock, cloud, selected>>

\* omron_sync_device_to_garmin has raised
DeviceRaised ==
    /\ spc = "loop"
    /\ pc = "aborted"
    /\ spc' = AfterDeviceError("sync")
    /\ pc' = "idle"
    /\ UNCHANGED <<opts, ocDev, window, source, garmin, nextPk, measurements,
                   gcData, mi, gi, run, calls, log, ended, filterVars,
                   oc, devices, args, clock, cloud, stores, selected, di>>

RunNext ==
    \/ SyncDeviceBegin
    \/ Login
    \/ NextDevice
    \/ DeviceRaised
    \/ SyncStart
    \/ QueryStore
    \/ Decide
    \/ DeleteExisting
    \/ AddMeasurement
    \/ SyncReturn

SpecRun == RunInit /\ [][RunNext]_vars

\* ------------------------------------------------------------------------
\* Specification of the "sync" command with an operator interrupt (SIGINT,
\* Ctrl+C) arriving while the command is in its device loop.  Python raises
\* KeyboardInterrupt in the main thread at the point the thread has
\* reached; the only handler of the program is in omron_ble_scan, so in
\* sync_device and its callees the exception leaves the command.
\* ------------------------------------------------------------------------
Interrupt ==
    /\ spc = "loop"
    /\ pc \in {"idle", "done", "start", "query", "loop", "delete", "add"}
    /\ spc' = "interrupted"
    /\ pc' = "interrupted"
    /\ stores' = StoresAfter
    /\ IF pc \in {"idle", "done"} THEN UNCHANGED ended
       ELSE End("interrupted")
    /\ UNCHANGED <<opts, ocDev, window, source, garmin, nextPk, measurements,
                   gcData, mi, gi, run, calls, log, filterVars,
                   oc, devices, args, clock, cloud, selected, di>>

InterruptNext ==
    \/ RunNext
    \/ Interrupt

SpecInterrupt == RunInit /\ [][InterruptNext]_vars

\* ------------------------------------------------------------------------
\* Specification of the device registry: the commands "add" (add_device)
\* and "remove" (remove_device) of src/omramin.py, run one after another on
\* the same configuration file.  `devices` is the device list of the file,
\* `query` the arguments of the last command, `result` the list the command
\* found, `log` the messages of the commands.
\* ------------------------------------------------------------------------
\* variant of AlreadyPresent that never finds the address
AlreadyPresent_Never(macaddr, devs) == FALSE

\* "macaddr in [d["macaddr"] for d in devices]" (and, on the scan path,
\* "macAddr in macAddrsExistig" and "any(d["macaddr"] == scanned ...)")
AlreadyPresent(macaddr, devs) ==
    \E k \in 1..Len(devs) : devs[k].macaddr = macaddr

\* device_new with every answer given: the entry that is appended
device_new(macaddr, name, category, user, enabled) ==
    [macaddr |-> macaddr, name |-> name, category |-> category,
     user |-> user, enabled |-> enabled]

\* what a command leaves: the device list of the file and what it logged
Left(devs, said) == [devices |-> devs, said |-> said]

\* add_device: `scanned` tells that no --macaddr was given and macaddr is the
\* address the BLE scan came up with, `answered` that the prompt of
\* device_new was not cancelled, `saved` that json_save did not raise
add_device(devs, macaddr, name, scanned, answered, saved) ==
    IF scanned /\ AlreadyPresent(macaddr, devs)
    THEN Left(devs, <<"No devices found.">>)
    ELSE IF ~is_valid_macaddr(macaddr)
    THEN Left(devs, <<"Invalid MAC address">>)
    ELSE IF AlreadyPresent(macaddr, devs)
    THEN Left(devs, <<"Device already exists.">>)
    ELSE IF ~answered THEN Left(devs, <<>>)
    ELSE IF saved
    THEN Left(Append(devs, device_new(macaddr, name, MemberName("SCALE"),
                                      1, TRUE)),
              <<"Device(s) added successfully.">>)
    ELSE Left(devs, <<"Failed to save configuration">>)

\* "d.get("name") == devname or d.get("macaddr") == devname"
Identifies(d, devname) == d.name = devname \/ d.macaddr = devname

\* remove_device: next(...) takes the first entry devname identifies,
\* devices.remove(device) removes the first entry equal to it
remove_device(devs, devname, saved) ==
    IF ~\E k \in 1..Len(devs) : Identifies(devs[k], devname)
    THEN Left(devs, <<"No device found with identifier">>)
    ELSE LET first == CHOOSE k \in 1..Len(devs) :
                         /\ Identifies(devs[k], devname)
                         /\ \A j \in 1..(k - 1) : ~Identifies(devs[j], devname)
             at == CHOOSE k \in 1..Len(devs) :
                      /\ devs[k] = devs[first]
                      /\ \A j \in 1..(k - 1) : devs[j] # devs[first]
         IN IF saved
            THEN Left(SubSeq(devs, 1, at - 1) \o SubSeq(devs, at + 1, Len(devs)),
                      <<"Device removed successfully.">>)
            ELSE Left(devs, <<"Failed to save configuration">>)

\* addresses given to "add": three valid ones (two of them the same
\* address in two letter cases), a valid one with a newline at its end, and
\* one that is too short
MacNewline == V1Mac \o <<"\n">>
MacShort == SubSeq(V1Mac, 1, 14)
RegistryMacs == {V1Mac, MacUpper, MacUpperLowered, MacNewline, MacShort}

\* device lists of the file before the first command: pairwise distinct
\* addresses
RegistryInits ==
    {<<>>,
     <<device_new(V1Mac, NameA, MemberName("SCALE"), 1, TRUE)>>,
     <<device_new(V1Mac, NameA, MemberName("SCALE"), 1, TRUE),
       device_new(MacUpper, NameB, MemberName("BPM"), 1, TRUE)>>}

RegistryInit ==
    /\ IdleSync
    /\ query = None
    /\ result = NotCalled
    /\ oc = "OmronConnect2"
    /\ devices \in RegistryInits
    /\ args = None
    /\ clock = None
    /\ cloud = <<>>
    /\ stores = None
    /\ selected = <<>>
    /\ di = 0
    /\ spc = "registry"

\* the messages of a command, appended to the log
Said(messages) == [k \in 1..Len(messages) |-> Logged(messages[k])]

AddDevice ==
    /\ spc = "registry"
    /\ Len(log) < MaxOps
    /\ \E macaddr \in RegistryMacs, name \in {NameA, NameB} :
         \E scanned \in BOOLEAN, answered \in BOOLEAN, saved \in BOOLEAN :
         LET left == add_device(devices, macaddr, name, scanned, answered,
                                saved)
         IN /\ devices' = left.devices
            /\ log' = log \o Said(left.said)
            /\ query' = [op |-> "add", macaddr |-> macaddr, name |-> name]
            /\ result' = Returns([before |-> devices])
    /\ UNCHANGED <<opts, ocDev, window, source, garmin, nextPk, pc,
                   measurements, gcData, mi, gi, run, calls, ended,
                   oc, args, clock, cloud, stores, selected, di, spc>>

RemoveDevice ==
    /\ spc = "registry"
    /\ Len(log) < MaxOps
    /\ \E devname \in {NameA, NameB, V1Mac, MacUpperLowered} :
         \E saved \in BOOLEAN :
         LET left == remove_device(devices, devname, saved)
         IN /\ devices' = left.devices
            /\ log' = log \o Said(left.said)
            /\ query' = [op |-> "remove", devname |-> devname]
            /\ result' = Returns([before |-> devices])
    /\ UNCHANGED <<opts, ocDev, window, source, garmin, nextPk, pc,
                   measurements, gcData, mi, gi, run, calls, ended,
                   oc, args, clock, cloud, stores, selected, di, spc>>

RegistryNext ==
    \/ AddDevice
    \/ RemoveDevice

SpecRegistry == RegistryInit /\ [][RegistryNext]_vars

\* ------------------------------------------------------------------------
\* Properties of OmronConnect2.get_measurements (checked under SpecFilter)
\* ------------------------------------------------------------------------
Returned == result # None

\* number of returned measurements dated d
ReturnedAt(d) == Count(result, LAMBDA x : x.measurementDate = d)

RawDates == {query.data[k].measurementDate : k \in 1..Len(query.data)}

SlotMatches(m) == m.userNumberInDevice = query.device.user

\* C8 - Manual-entry exclusion (Variant B): whatever the device category and
\* the other fields of the records, the returned list holds, for every
\* measurementDate, no more measurements than there are raw records of that
\* date whose isManualEntry flag is clear: a record with the flag set never
\* yields a measurement.
C8_ManualEntryExcluded ==
    Returned =>
        \A d \in RawDates :
            ReturnedAt(d) <=
                Count(query.data, LAMBDA m : m.measurementDate = d
                                             /\ m.isManualEntry = 0)

\* a manual entry of the device's own slot, inside the date bound, was
\* dropped while another record of the same call was returned
C8_Witness ==
    /\ Returned
    /\ Len(result) > 0
    /\ \E k \in 1..Len(query.data) :
          /\ query.data[k].isManualEntry = 1
          /\ SlotMatches(query.data[k])
          /\ query.data[k].measurementDate <= query.searchDateTo

\* C9 - Date filtering (Variant B): among the records that pass the slot and
\* manual-entry tests, those dated after searchDateTo are all dropped when
\* searchDateTo > 0, and every other one (dated at or before searchDateTo, or
\* any date when searchDateTo is 0) is returned.
C9_DateFilter ==
    Returned =>
        \A d \in RawDates :
            IF query.searchDateTo > 0 /\ d > query.searchDateTo
            THEN ReturnedAt(d) = 0
            ELSE ReturnedAt(d) =
                    Count(query.data,
                          LAMBDA m : /\ m.measurementDate = d
                                     /\ m.isManualEntry = 0
                                     /\ (query.device.user < 0 \/ SlotMatches(m)))

\* an upper bound is set, a device entry dated exactly at the bound was
\* returned and a device entry dated after it was handed in
C9_Witness ==
    /\ Returned
    /\ query.searchDateTo > 0
    /\ ReturnedAt(query.searchDateTo) > 0
    /\ \E k \in 1..Len(query.data) :
          /\ query.data[k].measurementDate > query.searchDateTo
          /\ query.data[k].isManualEntry = 0
          /\ SlotMatches(query.data[k])

\* C10 as stated - User-slot filtering (Variant B): for every device, every
\* returned measurement comes from a raw record whose userNumberInDevice
\* equals the device's user slot.
C10_Original ==
    Returned =>
        \A d \in RawDates :
            ReturnedAt(d) <=
                Count(query.data, LAMBDA m : m.measurementDate = d
                                             /\ SlotMatches(m))

\* C10 amended - for a device whose user slot is not negative, every returned
\* measurement comes from a raw record whose userNumberInDevice equals the
\* device's user slot; records of other slots are skipped.
C10_UserSlotFilter ==
    (Returned /\ query.device.user >= 0) =>
        \A d \in RawDates :
            ReturnedAt(d) <=
                Count(query.data, LAMBDA m : m.measurementDate = d
                                             /\ SlotMatches(m))

\* a device entry of another slot was dropped while an entry of the
\* device's slot was returned
C10_Witness ==
    /\ Returned
    /\ query.device.user >= 0
    /\ Len(result) > 0
    /\ \E k \in 1..Len(query.data) :
          /\ ~SlotMatches(query.data[k])
          /\ query.data[k].isManualEntry = 0
          /\ ~(/\ query.searchDateTo > 0
               /\ query.data[k].measurementDate > query.searchDateTo)

\* ------------------------------------------------------------------------
\* Properties of the sync of one device (checked under Spec)
\* ------------------------------------------------------------------------
\* target-store writes issued for measurement i in invocation r, in order
WritesOf(r, i) ==
    SelectSeq(calls, LAMBDA c : c.run = r /\ c.mi = i
                                /\ c.op \in {"delete", "add"})

\* decisions logged for measurement i in invocation r
LogOf(r, i) == SelectSeq(log, LAMBDA e : e.run = r /\ e.mi = i)

LogOfRun(r) == SelectSeq(log, LAMBDA e : e.run = r)

Actions(l) == [k \in 1..Len(l) |-> <<l[k].mi, l[k].action>>]

\* the options invocation r runs or ran with
RunOpts(r) == IF r = run THEN opts ELSE ended[r].opts

\* the lookup of the running invocation has been built
Looked == mi >= 1

\* the loop of the running invocation is past measurement i
Processed(i) == i < mi

\* positions of gcData whose key is the key of measurement i
Matching(i) ==
    {k \in 1..Len(gcData) : gcData[k].key = Lookup(measurements[i])}

Fetched == 1..Len(measurements)

\* the call c is a delete of handle pk
IsDelete(c, pk) == c.op = "delete" /\ c.pk = pk

\* the call c is the add of measurement m: its timestamp names the instant
\* of m, cut to whole seconds
IsAddOf(c, m) ==
    /\ c.op = "add"
    /\ c.payload.timestamp.wall
          - c.payload.timestamp.offset * SecondsPerMinute
       = m.measurementDate \div MsPerSecond

\* C1 - Overwrite correctness: with overwrite and write enabled, for a
\* fetched measurement whose key is the key of exactly one existing record
\* h, the writes issued for it are at every moment a prefix of
\* [delete(h), add(measurement)], each call issued only after the one before
\* it returned, and they are exactly that sequence once the loop is past
\* the measurement.
C1_OverwriteSequence ==
    (Looked /\ opts.overwrite /\ opts.write_to_garmin) =>
        \A i \in Fetched :
            Cardinality(Matching(i)) = 1 =>
                LET h == gcData[CHOOSE k \in Matching(i) : TRUE].pk
                    w == WritesOf(run, i)
                IN /\ Len(w) <= 2
                   /\ Len(w) >= 1 => IsDelete(w[1], h)
                   /\ Len(w) = 2 => w[1].ok /\ IsAddOf(w[2], measurements[i])
                   /\ Processed(i) => Len(w) = 2 /\ w[2].ok

\* the loop is past a measurement that had exactly one existing record
C1_Witness ==
    /\ Looked /\ opts.overwrite /\ opts.write_to_garmin
    /\ \E i \in Fetched : Processed(i) /\ Cardinality(Matching(i)) = 1

\* C2 - Reconciliation idempotence: when the first invocation completed with
\* overwrite disabled and write enabled, a second invocation with the same
\* options on the same source data issues no add.
C2_Idempotent ==
    (/\ run = 2
     /\ ended[1].outcome = "done"
     /\ ~opts.overwrite
     /\ opts.write_to_garmin /\ ended[1].opts.write_to_garmin) =>
        \A k \in 1..Len(calls) : ~(calls[k].run = 2 /\ calls[k].op = "add")

\* C3 - Present, overwrite disabled: for a fetched measurement whose key is
\* the key of at least one existing record, no add and no delete is issued,
\* the loop never stops at it, and once the loop is past it the one decision
\* logged for it is "skip".
C3_SkipWhenPresent ==
    (Looked /\ ~opts.overwrite) =>
        \A i \in Fetched :
            Matching(i) # {} =>
                /\ WritesOf(run, i) = <<>>
                /\ mi = i => pc = "loop"
                /\ Processed(i) => Actions(LogOf(run, i)) = <<<<i, "skip">>>>

\* a present measurement was skipped and the one after it was decided too
C3_Witness ==
    /\ Looked /\ ~opts.overwrite
    /\ \E i \in Fetched :
          /\ Matching(i) # {}
          /\ Processed(i)
          /\ LogOf(run, i + 1) # <<>>

\* the add payload carries the fields of the device's category, taken from
\* the measurement
CarriesPayload(p, m) ==
    IF ocDev.category = "SCALE"
    THEN /\ DOMAIN p = {"timestamp", "weight", "percent_fat",
                        "percent_hydration", "visceral_fat_mass", "bone_mass",
                        "muscle_mass", "basal_met", "active_met",
                        "physique_rating", "metabolic_age",
                        "visceral_fat_rating", "bmi"}
         /\ p.weight = m.weight
         /\ p.bmi = m.bmiValue
         /\ m.bodyFatPercentage > 0 => p.percent_fat = m.bodyFatPercentage
         /\ m.restingMetabolism > 0 => p.basal_met = m.restingMetabolism
         /\ m.visceralFatLevel > 0 => p.visceral_fat_rating = m.visceralFatLevel
    ELSE /\ DOMAIN p = {"timestamp", "systolic", "diastolic", "pulse", "notes"}
         /\ p.systolic = m.systolic
         /\ p.diastolic = m.diastolic
         /\ p.pulse = m.pulse
         /\ m.notes # "" => p.notes[1] = m.notes

\* C4 - Not present: for a fetched measurement whose key is the key of no
\* existing record, whatever the overwrite setting, no delete is ever issued,
\* at most one add is, and once the loop is past the measurement exactly one
\* "add" decision is logged for it and (write enabled) exactly one add call
\* was issued, for the instant of the measurement and with the payload of
\* the device's category.
C4_AddWhenAbsent ==
    Looked =>
        \A i \in Fetched :
            Matching(i) = {} =>
                LET w == WritesOf(run, i) IN
                /\ \A k \in 1..Len(w) : w[k].op = "add"
                /\ Len(w) <= 1
                /\ Len(w) = 1 => /\ IsAddOf(w[1], measurements[i])
                                 /\ CarriesPayload(w[1].payload, measurements[i])
                /\ Processed(i) =>
                      /\ Actions(LogOf(run, i)) = <<<<i, "add">>>>
                      /\ opts.write_to_garmin => Len(w) = 1 /\ w[1].ok

\* the loop is past an absent measurement that was added, with overwrite on
C4_Witness ==
    /\ Looked /\ opts.overwrite /\ opts.write_to_garmin
    /\ \E i \in Fetched :
          /\ Matching(i) = {}
          /\ Processed(i)
          /\ measurements[i].timeZone # 0

\* C5 - Dry run: no invocation with write disabled issues an add or a
\* delete; and when a completed dry run is followed by an invocation with
\* write enabled on the same inputs, the decisions logged by the second are
\* at every moment a prefix of those of the dry run, and the same sequence
\* when it completes.
C5_DryRun ==
    /\ \A k \in 1..Len(calls) :
          calls[k].op \in {"delete", "add"}
             => RunOpts(calls[k].run).write_to_garmin
    /\ \A r \in 2..run :
          (/\ ~RunOpts(r - 1).write_to_garmin
           /\ ended[r - 1].outcome = "done"
           /\ RunOpts(r).write_to_garmin) =>
              /\ IsPrefix(Actions(LogOfRun(r)), Actions(LogOfRun(r - 1)))
              /\ (Len(ended) >= r /\ ended[r].outcome = "done")
                    => Actions(LogOfRun(r)) = Actions(LogOfRun(r - 1))

\* a dry run that logged a removal and an add was followed by a completed
\* invocation with write enabled
C5_Witness ==
    /\ run = 2 /\ pc = "done"
    /\ ~ended[1].opts.write_to_garmin /\ ended[1].outcome = "done"
    /\ opts.write_to_garmin
    /\ \E k \in 1..Len(log) : log[k].run = 1 /\ log[k].action = "remove"
    /\ \E k \in 1..Len(log) : log[k].run = 1 /\ log[k].action = "add"

\* C6 - Tie-break: with overwrite and write enabled, no existing record is
\* deleted twice for one measurement, and when the add of a measurement is
\* issued, every existing record with the measurement's key has had its
\* delete issued (and returned) before it; the add is the last and only add
\* for the measurement.
C6_TieBreak ==
    (Looked /\ opts.overwrite /\ opts.write_to_garmin) =>
        \A i \in Fetched :
            LET w == WritesOf(run, i)
                adds == {k \in 1..Len(w) : w[k].op = "add"}
            IN /\ \A k \in 1..Len(gcData) :
                     Count(w, LAMBDA c : IsDelete(c, gcData[k].pk)) <= 1
               /\ (adds # {} \/ Processed(i)) =>
                     /\ adds = {Len(w)}
                     /\ \A k \in Matching(i) :
                           \E j \in 1..(Len(w) - 1) :
                               IsDelete(w[j], gcData[k].pk) /\ w[j].ok

\* the add of a measurement with two existing records of its key was issued
C6_Witness ==
    /\ Looked /\ opts.overwrite /\ opts.write_to_garmin
    /\ \E i \in Fetched :
          /\ Cardinality(Matching(i)) >= 2
          /\ \E k \in 1..Len(calls) :
                calls[k].run = run /\ calls[k].mi = i /\ calls[k].op = "add"

\* C7 - Failed delete: in every invocation, a delete that failed is the last
\* call the invocation issued, the invocation ended aborted, and no add was
\* issued for the measurement the delete was for.
C7_FailedDeleteNoAdd ==
    \A k \in 1..Len(calls) :
        (calls[k].op = "delete" /\ ~calls[k].ok) =>
            /\ \A j \in (k + 1)..Len(calls) : calls[j].run # calls[k].run
            /\ Len(ended) >= calls[k].run
            /\ ended[calls[k].run].outcome = "aborted"
            /\ \A j \in 1..Len(calls) :
                  ~(/\ calls[j].run = calls[k].run
                    /\ calls[j].mi = calls[k].mi
                    /\ calls[j].op = "add")

\* a delete failed after an earlier measurement of the same invocation had
\* been written
C7_Witness ==
    \E k \in 1..Len(calls) :
        /\ calls[k].op = "delete" /\ ~calls[k].ok
        /\ \E j \in 1..(k - 1) :
              calls[j].run = calls[k].run /\ calls[j].op = "add" /\ calls[j].ok

\* ------------------------------------------------------------------------
\* Properties of the conversion to WeightMeasurement
\* ------------------------------------------------------------------------

\* C11: every WeightMeasurement that get_measurements returns has a weight
\* above zero after unit conversion, whatever the raw record holds (a record
\* whose weight and weightInLbs are both non-positive included).
C11_WeightPositive ==
    (result # None /\ query.device.category = "SCALE")
        => \A k \in 1..Len(result) : result[k].weight > 0

\* ------------------------------------------------------------------------
\* Properties of OmronConnect1.get_measurements (checked under SpecA)
\* ------------------------------------------------------------------------
\* the fetch of the running invocation, once the service has answered it
FetchAnswered(c) == c.op = "fetch" /\ c.raised # "HTTPError"

\* returnedValue, or its first element when it is a list, carries an
\* errorCode or is empty
ErrorOrEmpty(resp) ==
    \/ resp.returnedValue.elems = <<>>
    \/ /\ resp.returnedValue.elems # <<>>
       /\ \/ HasKey(resp.returnedValue.elems[1], "errorCode")
          \/ IsEmptyDict(resp.returnedValue.elems[1])

\* C12: when the response's returnedValue (or its first element when it is
\* a list, the empty list included) carries an errorCode or is empty,
\* get_measurements returns the empty list without raising, and the sync of
\* the device issues no query, add or delete to the target store.
C12_ErrorResponse ==
    ErrorOrEmpty(source)
        => \A k \in 1..Len(calls) :
             /\ calls[k].op = "fetch"
             /\ FetchAnswered(calls[k]) => (calls[k].ok /\ measurements = <<>>)

\* the raw records the response lists for the synced device
RECURSIVE MeasureListOf(_, _, _)
MeasureListOf(deviceSerialIDList, serial, k) ==
    IF k > Len(deviceSerialIDList) THEN <<>>
    ELSE IF deviceSerialIDList[k].deviceSerialID = serial
    THEN deviceSerialIDList[k].measureList
    ELSE MeasureListOf(deviceSerialIDList, serial, k + 1)

\* the response is an answer (no errorCode, not empty) with a model list
Answer(resp) ==
    /\ resp.returnedValue.elems # <<>>
    /\ HasKey(resp.returnedValue.elems[1], "deviceModelList")
    /\ resp.returnedValue.elems[1].deviceModelList # <<>>

AnswerList(resp) ==
    MeasureListOf(
        resp.returnedValue.elems[1].deviceModelList[1][1].deviceSerialIDList,
        V1Serial, 1)

WellFormed(category, m) ==
    \A code \in (IF category = "BPM" THEN BPFigures ELSE ScaleFigures) :
        HasKey(m.bodyIndexList, code)

\* C13: a raw record that lacks a required figure code, or a response with
\* a category code outside the enum, raises nothing in get_measurements:
\* the call returns one measurement for each well-formed record of the
\* response, so the sync of the device goes on with them.
C13_MalformedDropped ==
    \A k \in 1..Len(calls) :
        (calls[k].op = "fetch" /\ FetchAnswered(calls[k]))
            => /\ (source.returnedValue.elems # <<>>
                   /\ HasKey(source.returnedValue.elems[1], "deviceCategory"))
                      => calls[k].ok
               /\ Answer(source)
                      => Len(measurements)
                           = Len(SelectSeq(AnswerList(source), LAMBDA m : WellFormed(ocDev.category, m)))

\* ------------------------------------------------------------------------
\* Properties of filter_devices (checked under SpecDevices)
\* ------------------------------------------------------------------------
\* r is s with some elements left out, the others in the order of s
RECURSIVE IsSubList(_, _)
IsSubList(r, s) ==
    IF r = <<>> THEN TRUE
    ELSE IF s = <<>> THEN FALSE
    ELSE IF Head(r) = Head(s) THEN IsSubList(Tail(r), Tail(s))
    ELSE IsSubList(r, Tail(s))

\* C14: filter_devices never returns a disabled device, whatever names and
\* category are given; with a category every returned device has it; the
\* result is a sub-list of the input in the input's order.
C14_EnabledSubList ==
    result # None
        => /\ \A k \in 1..Len(result) : result[k].enabled
           /\ query.category # None
                => \A k \in 1..Len(result) :
                     result[k].category = MemberName(query.category)
           /\ IsSubList(result, query.devices)

\* a category was given, a device that is disabled or of another category
\* was handed in before one that is returned
C14_Witness ==
    /\ result # None
    /\ Len(result) = 1
    /\ query.category # None
    /\ Len(query.devices) = 2
    /\ query.devices[2] = result[1]
    /\ \/ ~query.devices[1].enabled
       \/ query.devices[1].category # MemberName(query.category)

\* the device passes the enabled test and the category test
Eligible(d) ==
    /\ d.enabled
    /\ query.category # None => d.category = MemberName(query.category)

\* C15 as stated: with names given, an enabled device is kept exactly when
\* its name, its MAC or its serial equals some entry of names.
C15_Original ==
    (result # None /\ query.devnames # <<>>)
        => \A k \in 1..Len(query.devices) :
             LET d == query.devices[k] IN
             Eligible(d)
                => (In(d, result)
                      <=> \/ In(d.name, query.devnames)
                          \/ In(d.macaddr, query.devnames)
                          \/ In(ble_mac_to_serial(d.macaddr), query.devnames))

\* C15: with names given, an enabled device (of the category, when one is
\* given) is kept exactly when its name or its MAC equals, case-sensitive
\* and exact, some entry of names; the serial is not compared.
C15_NameOrMac ==
    (result # None /\ query.devnames # <<>>)
        => \A k \in 1..Len(query.devices) :
             LET d == query.devices[k] IN
             Eligible(d)
                => (In(d, result)
                      <=> \/ In(d.name, query.devnames)
                          \/ In(d.macaddr, query.devnames))

\* two names were given; one device is kept for its name alone and another
\* for its address alone
C15_Witness ==
    /\ result # None
    /\ Len(query.devnames) = 2
    /\ \E k \in 1..Len(result) :
         /\ In(result[k].name, query.devnames)
         /\ ~In(result[k].macaddr, query.devnames)
    /\ \E k \in 1..Len(result) :
         /\ ~In(result[k].name, query.devnames)
         /\ In(result[k].macaddr, query.devnames)

\* ------------------------------------------------------------------------
\* Properties of calculate_date_range (checked under SpecDates)
\* ------------------------------------------------------------------------
\* C16: calculate_date_range(days) gives for every negative days the
\* window of days = 0; a returned window ends at the end of today in local
\* time, starts at the local midnight of (today - days), has start < end,
\* and its start does not increase when days increases.
C16_Window ==
    result # NotCalled
        => /\ query.days < 0 => result = calculate_date_range(0, query.cal)
           /\ result.raised = None
                => LET back == IF query.days < 0 THEN 0 ELSE query.days IN
                   /\ result.value[2]
                        = query.cal.today * SecondsPerDay + 86399
                             - query.cal.offEnd
                   /\ result.value[1]
                        = (query.cal.today - back) * SecondsPerDay
                             - query.cal.offStart[back]
                   /\ result.value[1] < result.value[2]
                   /\ LET more == calculate_date_range(query.days + 1, query.cal)
                      IN more.raised = None
                           => more.value[1] <= result.value[1]

\* a window over several days was returned, across a change of the offset
C16_Witness ==
    /\ result # NotCalled
    /\ result.raised = None
    /\ query.days = 2
    /\ query.cal.offStart[2] # query.cal.offEnd
    /\ result.value[2] - result.value[1] > 2 * SecondsPerDay

\* ------------------------------------------------------------------------
\* Properties of ble_mac_to_serial (checked under SpecMac)
\* ------------------------------------------------------------------------
\* the k-th octet of an address, by position
OctetAt(mac, k) == SubSeq(mac, 3 * k - 2, 3 * k - 1)

\* C18: for every address that is_valid_macaddr accepts (colons or dashes,
\* any letter case) the serial is the lower-cased o6 o5 o4 "fe" "ff" o3 o2
\* o1: 16 characters with "feff" at positions 7-10, and 11:22:33:44:55:66
\* gives 665544feff332211.
C18_Serial ==
    (result # NotCalled /\ is_valid_macaddr(query.mac))
        => /\ result.value
                = str_lower(OctetAt(query.mac, 6) \o OctetAt(query.mac, 5)
                            \o OctetAt(query.mac, 4)
                            \o <<"f", "e", "f", "f">>
                            \o OctetAt(query.mac, 3)
                            \o OctetAt(query.mac, 2)
                            \o OctetAt(query.mac, 1))
           /\ Len(result.value) = 16
           /\ SubSeq(result.value, 7, 10) = <<"f", "e", "f", "f">>
           /\ str_lower(query.mac) = V1Mac => result.value = V1Serial

\* ------------------------------------------------------------------------
\* Properties of OmronDevice (checked under SpecEntry)
\* ------------------------------------------------------------------------
\* C19: constructing an OmronDevice with a category string that names no
\* member of DeviceCategory {BPM, SCALE} raises ValueError, gives the entry
\* no category, and forces its enabled flag to false; a string that names
\* a member in any letter case yields that member.
C19_CategoryValidation ==
    result # NotCalled
        => IF str_upper(query.category) = MemberName("BPM")
           THEN result.raised = None /\ result.value.category = "BPM"
           ELSE IF str_upper(query.category) = MemberName("SCALE")
           THEN result.raised = None /\ result.value.category = "SCALE"
           ELSE /\ result.raised = "ValueError"
                /\ result.value.category \notin Categories
                /\ ~result.value.enabled

\* an enabled entry with a bad category was constructed
C19_Witness ==
    /\ result # NotCalled
    /\ query.enabled
    /\ query.category = <<"A", "C", "T", "I", "V", "I", "T", "Y">>
    /\ result.raised = "ValueError"

\* ------------------------------------------------------------------------
\* Properties of the "sync" command (checked under SpecRun)
\* ------------------------------------------------------------------------
\* the end of today is not after the local midnight of (today - days)
WindowEmpty ==
    DayEnd(clock.today) - clock.offEnd
        < DayStart(clock.today - ClampDays(args.days))
             - clock.offStart[ClampDays(args.days)]

\* C17: when the computed end is not after the start, calculate_date_range
\* raises DateRangeException and sync_device returns before any login,
\* fetch or target-store call; omron_sync_device_to_garmin called with
\* endLocal - startLocal <= 0 returns without fetching or writing.
C17_EmptyWindow ==
    /\ (spc # "direct" /\ WindowEmpty)
          => /\ calculate_date_range(args.days, clock).raised
                  = "DateRangeException"
             /\ spc \in {"start", "returned"}
             /\ pc = "idle"
             /\ calls = <<>>
             /\ log = <<>>
    /\ (spc = "direct" /\ window[2] - window[1] <= 0)
          => /\ pc \in {"start", "done"}
             /\ calls = <<>>
             /\ log = <<>>

\* the command has returned on an empty window although an enabled device
\* was configured and selected by the arguments
C17_Witness ==
    /\ spc = "returned"
    /\ WindowEmpty
    /\ filter_devices(devices, args.devnames, args.category) # <<>>

\* C20: in a sync run over several devices, when one device fails (its
\* fetch raises, or its entry fails the category validation), the devices
\* after it are still fetched: once the command is over, every selected
\* device with a valid entry has had its fetch.
C20_FailureIsolation ==
    (spc \in {"returned", "raised"} /\ di >= 1)
        => \A k \in 1..Len(selected) :
             OmronDevice(selected[k]).raised = None
                => \E c \in 1..Len(calls) :
                     calls[c].op = "fetch" /\ calls[c].dev = k

\* a login has failed: it raised LoginError or returned no client
LoginFailed ==
    \E k \in 1..Len(calls) :
        calls[k].op \in {"garmin_login", "omron_login"} /\ ~calls[k].ok

\* C21: when the login to the source service or to the target store fails
\* (it returns no client or raises LoginError), sync_device stops before
\* the device loop: no device is started and no source fetch, target-store
\* query, add or delete is made.
C21_LoginFailureStops ==
    LoginFailed
        => /\ spc = "returned"
           /\ di = 0
           /\ pc = "idle"
           /\ log = <<>>
           /\ \A k \in 1..Len(calls) :
                 calls[k].op \in {"garmin_login", "omron_login"}

\* the login to the target store gave a client, the login to the source
\* service returned none, and the command returned with devices selected
C21_Witness ==
    /\ spc = "returned"
    /\ selected # <<>>
    /\ Len(calls) = 2
    /\ calls[1].op = "garmin_login" /\ calls[1].ok
    /\ calls[2].op = "omron_login" /\ ~calls[2].ok /\ calls[2].raised = None

\* the calls omron_sync_device_to_garmin makes
EngineOps == {"fetch", "query", "delete", "add"}

\* C22: devices are synced one after another in list order: the source
\* service is called at most once per device of the run, and every
\* target-store query, delete and add of a device comes before the fetch of
\* the device after it (no call of an earlier device follows a call of a
\* later one).
C22_OneByOne ==
    /\ \A k \in 1..Len(selected) :
          Count(calls, LAMBDA c : c.op = "fetch" /\ c.dev = k) <= 1
    /\ \A a, b \in 1..Len(calls) :
          (a < b /\ calls[a].op \in EngineOps /\ calls[b].op \in EngineOps)
             => /\ calls[a].dev <= calls[b].dev
                /\ calls[b].op = "fetch" => calls[a].dev < calls[b].dev

\* the first device was queried and written, then the second was fetched
C22_Witness ==
    \E a, b, c \in 1..Len(calls) :
        /\ a < b /\ b < c
        /\ calls[a].op = "query" /\ calls[a].dev = 1
        /\ calls[b].op = "add" /\ calls[b].dev = 1 /\ calls[b].ok
        /\ calls[c].op = "fetch" /\ calls[c].dev = 2

\* ------------------------------------------------------------------------
\* Properties of the comparison key and of the add payload (checked under
\* Spec)
\* ------------------------------------------------------------------------
\* UTC offsets (minutes) a measurement may carry
KeyZones == {-600, 0, 60, 840}

\* C23: the Comparison Key of a fetched measurement is computed from its
\* measurementDate alone, read as UTC epoch milliseconds: it is the UTC day
\* and the UTC epoch seconds (with their fraction) of that instant, the same
\* for every timeZone the measurement may carry, and it equals the key the
\* gateway has built for an existing record exactly when the record is of
\* the same UTC instant.
C23_KeyFromInstant ==
    Looked =>
        \A i \in Fetched :
            LET m == measurements[i] IN
            /\ Lookup(m) = <<(m.measurementDate \div 1000) \div 86400,
                             m.measurementDate \div 1000,
                             m.measurementDate % 1000>>
            /\ \A tz \in KeyZones :
                  Lookup([m EXCEPT !.timeZone = tz]) = Lookup(m)
            /\ \A k \in 1..Len(gcData), g \in 1..Len(garmin) :
                  garmin[g].pk = gcData[k].pk
                     => (gcData[k].key = Lookup(m)
                           <=> garmin[g].gmt * 1000 = m.measurementDate)

\* a measurement with a UTC offset matched no record although a record of
\* its whole second exists, and a record of the same instant was matched
C23_Witness ==
    /\ Looked
    /\ \E i, j \in Fetched :
          /\ Matching(i) # {}
          /\ measurements[j].timeZone # 0
          /\ Matching(j) = {}
          /\ \E g \in 1..Len(garmin) :
                garmin[g].gmt = measurements[j].measurementDate \div 1000

\* C24: in every add for a SCALE measurement, each body-composition field
\* whose model value is the -1 "unknown" sentinel (bodyFatPercentage,
\* skeletalMusclePercentage as muscle mass, restingMetabolism, metabolicAge,
\* visceralFatLevel, bmiValue) is sent as None, never as -1 or as zero.
\* (bmi is the one argument that is a number in every add.)
C24_SentinelAbsent ==
    ocDev.category = "SCALE" =>
        \A k \in 1..Len(calls) :
            (calls[k].op = "add" /\ calls[k].run = run) =>
                LET m == measurements[calls[k].mi]
                    sent == calls[k].payload
                IN /\ m.bodyFatPercentage = -1 => sent.percent_fat = None
                   /\ m.skeletalMusclePercentage = -1 => sent.muscle_mass = None
                   /\ m.restingMetabolism = -1 => sent.basal_met = None
                   /\ m.metabolicAge = -1 => sent.metabolic_age = None
                   /\ m.visceralFatLevel = -1 => sent.visceral_fat_rating = None
                   /\ m.bmiValue = -1 => sent.bmi \notin {-1, 0}

\* ------------------------------------------------------------------------
\* Properties of the target-store writes of one invocation (checked under
\* Spec)
\* ------------------------------------------------------------------------
\* positions in calls of the writes of the running invocation that returned
CompletedWrites(op) ==
    {j \in 1..Len(calls) : calls[j].run = run /\ calls[j].op = op /\ calls[j].ok}

\* the last call is a write of the running invocation that failed
WriteFailed ==
    /\ calls # <<>>
    /\ calls[Len(calls)].run = run
    /\ calls[Len(calls)].op \in {"add", "delete"}
    /\ ~calls[Len(calls)].ok

\* C25: a failed add or delete is reported for its record (the call raises
\* to the caller of the invocation, which ends there, at that record) and
\* nothing already completed is rolled back: the records deleted before it
\* stay deleted, the records added before it stay in the store, and the
\* other records are as they were.
C25_NoRollback ==
    /\ \A k \in 1..Len(calls) :
          (calls[k].op \in {"add", "delete"} /\ ~calls[k].ok)
             => /\ Len(ended) >= calls[k].run
                /\ ended[calls[k].run].outcome = "aborted"
                /\ \A j \in (k + 1)..Len(calls) : calls[j].run # calls[k].run
    /\ WriteFailed =>
          LET deleted == {calls[j].pk : j \in CompletedWrites("delete")} IN
          /\ pc = "aborted"
          /\ mi = calls[Len(calls)].mi
          /\ \A g \in 1..Len(gcData) :
                gcData[g].pk \in deleted
                   <=> ~\E r \in 1..Len(garmin) : garmin[r].pk = gcData[g].pk
          /\ Len(garmin) = Len(gcData) - Cardinality(deleted)
                               + Cardinality(CompletedWrites("add"))

\* an add failed after an add and a delete of the same invocation returned
C25_Witness ==
    /\ WriteFailed
    /\ calls[Len(calls)].op = "add"
    /\ CompletedWrites("add") # {}
    /\ CompletedWrites("delete") # {}

\* ------------------------------------------------------------------------
\* Properties of the weight of a Variant B record (checked under SpecFilter)
\* ------------------------------------------------------------------------
\* the raw records that pass the slot, date and manual-entry tests, in order
Passing ==
    SelectSeq(query.data,
              LAMBDA m : /\ query.device.user < 0 \/ SlotMatches(m)
                         /\ ~(query.searchDateTo > 0
                              /\ m.measurementDate > query.searchDateTo)
                         /\ m.isManualEntry = 0)

\* C26: the weight of a produced WeightMeasurement is the pounds field
\* converted to kilograms (x 0.453592) when the primary weight field is not
\* positive and the pounds field is positive, and it is the primary weight
\* field unchanged whenever the primary field is positive.
C26_WeightFallback ==
    (Returned /\ query.device.category = "SCALE") =>
        /\ Len(result) = Len(Passing)
        /\ \A k \in 1..Len(result) :
              LET m == Passing[k] IN
              /\ m.weight > 0 => result[k].weight = m.weight
              /\ (m.weight <= 0 /\ m.weightInLbs > 0)
                    => result[k].weight = (m.weightInLbs * 453592) \div 1000

\* one returned measurement took the pounds of a record with a negative
\* weight, another kept the weight of a record that also carries pounds
C26_Witness ==
    /\ Returned
    /\ query.device.category = "SCALE"
    /\ Len(result) = 2
    /\ Passing[1].weight < 0 /\ Passing[1].weightInLbs > 0
    /\ Passing[2].weight > 0 /\ Passing[2].weightInLbs > 0

\* ------------------------------------------------------------------------
\* Properties of the "sync" command under an operator interrupt (checked
\* under SpecInterrupt)
\* ------------------------------------------------------------------------
\* the call c is a returned write `op` for measurement i of device k
CompletedFor(c, op, k, i) == c.op = op /\ c.ok /\ c.dev = k /\ c.mi = i

\* C27: an operator interrupt takes effect only between devices, never in
\* the middle of the sync of a device, so no interrupted run ends with an
\* existing record deleted for a measurement whose add was not performed.
C27_InterruptBetweenDevices ==
    spc = "interrupted" =>
        /\ \A k \in 1..Len(ended) : ended[k].outcome # "interrupted"
        /\ \A j \in 1..Len(calls) :
              (calls[j].op = "delete" /\ calls[j].ok)
                 => \E a \in 1..Len(calls) :
                       CompletedFor(calls[a], "add", calls[j].dev, calls[j].mi)

\* ------------------------------------------------------------------------
\* Frame of the reconciliation and use of the lookup (checked under Spec)
\* ------------------------------------------------------------------------
\* the record at position g of the lookup has the key of no fetched
\* measurement
Unmatched(g) == \A i \in Fetched : gcData[g].key # Lookup(measurements[i])

\* C28: a delete is issued only for an existing record whose Comparison Key
\* is the key of a fetched measurement (the one the loop is at), and only
\* in a run with overwrite and write both enabled; every other existing
\* record stays in the store as it was; a run with overwrite disabled
\* issues no delete.
C28_DeleteFrame ==
    /\ \A k \in 1..Len(calls) :
          calls[k].op = "delete"
             => /\ RunOpts(calls[k].run).overwrite
                /\ RunOpts(calls[k].run).write_to_garmin
    /\ Looked =>
          /\ \A k \in 1..Len(calls) :
                (calls[k].op = "delete" /\ calls[k].run = run)
                   => \E g \in 1..Len(gcData) :
                         /\ gcData[g].pk = calls[k].pk
                         /\ gcData[g].key = Lookup(measurements[calls[k].mi])
          /\ \A g \in 1..Len(gcData) :
                Unmatched(g)
                   => \E r \in 1..Len(garmin) :
                         /\ garmin[r].pk = gcData[g].pk
                         /\ garmin[r].gmt = gcData[g].key[2]

\* an overwriting run has returned after deleting a record, and another
\* existing record, of no fetched key, is still in the store
C28_Witness ==
    /\ Looked /\ pc = "done"
    /\ opts.overwrite /\ opts.write_to_garmin
    /\ CompletedWrites("delete") # {}
    /\ \E g \in 1..Len(gcData) : Unmatched(g)

\* measurements the loop is past whose key the lookup does not hold
ProcessedAbsent == {i \in Fetched : Processed(i) /\ Matching(i) = {}}

\* C29: the lookup of existing records is taken once per invocation,
\* before the loop, and the run's own adds do not enter it: with overwrite
\* disabled, between two measurements and at the end of the run the number
\* of add decisions (and, with write enabled, of add calls) equals the
\* number of measurements processed so far, counted with multiplicity,
\* whose key the lookup does not hold; two fetched measurements with the
\* same absent key are both added.
C29_LookupOnce ==
    /\ \A r \in 1..run :
          Count(calls, LAMBDA c : c.run = r /\ c.op = "query") <= 1
    /\ (Looked /\ ~opts.overwrite /\ pc \in {"loop", "done"}) =>
          /\ Count(log, LAMBDA e : e.run = run /\ e.action = "add")
                = Cardinality(ProcessedAbsent)
          /\ opts.write_to_garmin
                => Cardinality(CompletedWrites("add"))
                      = Cardinality(ProcessedAbsent)
          /\ \A k \in 1..Len(calls) :
                (calls[k].run = run /\ calls[k].op = "add") => calls[k].ok

\* the run has returned after adding two fetched measurements of the same
\* key, which the lookup does not hold
C29_Witness ==
    /\ Looked /\ pc = "done"
    /\ ~opts.overwrite /\ opts.write_to_garmin
    /\ Len(measurements) = 2
    /\ Lookup(measurements[1]) = Lookup(measurements[2])
    /\ Matching(1) = {}
    /\ Cardinality(CompletedWrites("add")) = 2

\* ------------------------------------------------------------------------
\* Properties of the device registry (checked under SpecRegistry)
\* ------------------------------------------------------------------------
\* the addresses of a device list, in order
Macs(devs) == [k \in 1..Len(devs) |-> devs[k].macaddr]

PairwiseDistinct(s) == \A a, b \in 1..Len(s) : a # b => s[a] # s[b]

\* C30: starting from a configuration whose devices have pairwise distinct
\* MAC strings, after any sequence of "add" and "remove" commands the
\* devices still have pairwise distinct MAC strings; an "add" with a MAC
\* that is invalid or already present leaves the device list as it was.
C30_RegistryUnique ==
    /\ PairwiseDistinct(Macs(devices))
    /\ (/\ result # NotCalled
        /\ query.op = "add"
        /\ \/ ~is_valid_macaddr(query.macaddr)
           \/ In(query.macaddr, Macs(result.value.before)))
          => devices = result.value.before

\* a device was added, another was removed, and then an "add" with the
\* address of a device of the list was refused
C30_Witness ==
    /\ result # NotCalled
    /\ query.op = "add"
    /\ In(query.macaddr, Macs(devices))
    /\ Len(log) = 3
    /\ log[1].action = "Device(s) added successfully."
    /\ log[2].action = "Device removed successfully."
    /\ log[3].action = "Device already exists."

====
